---------------------------- MODULE Spec2Model ----------------------------
(***************************************************************************)
(* Maizone engagement scheduling core.                                     *)
(*                                                                         *)
(*   src/scheduled_tasks.py  FeedMonitor.check_feeds and the load/save of  *)
(*                           the two dedup files                           *)
(*   src/routine.py          RoutineRunner: start, stop, _routine_loop,    *)
(*                           _llm_decide, _post_feed, _browse_feeds,       *)
(*                           _check_diary                                  *)
(*                                                                         *)
(* The handlers are coroutines: a step of the model is the code between    *)
(* two awaits at which shared state (the dedup files, the remote service)  *)
(* is touched.  Awaits that touch nothing shared are folded into the step  *)
(* that follows them.                                                      *)
(***************************************************************************)
EXTENDS Integers, Sequences, FiniteSets, TLC

(***************************************************************************)
(* Bounds of the model.                                                    *)
(***************************************************************************)
MaxCap == 2        \* cache sizes are drawn from 1..MaxCap
MaxFeed == 2       \* a fetched feed list has at most MaxFeed entries

(***************************************************************************)
(* The world outside: accounts, feed items and their comments.             *)
(***************************************************************************)
qq_account == "bot"                       \* bot.qq_account
Runner == "runner"                              \* the loop task of RoutineRunner
Manual == "manual"                              \* a second, overlapping invocation
Procs == {Runner, Manual}

OtherItems == {"a", "b"}
SelfItems == {"s", "t", "u"}
Items == OtherItems \cup SelfItems

\* feed["target_qq"]
target_qq(fid) ==
    CASE fid = "a" -> "q1"
      [] fid = "b" -> "q2"
      [] OTHER -> qq_account

\* feed["comments"]: comment_tid and qq_account of each comment, in order
comments_list(fid) ==
    CASE fid = "s" -> << [comment_tid |-> "c1", qq_account |-> "q1"],
                         [comment_tid |-> "c0", qq_account |-> qq_account],
                         [comment_tid |-> "c2", qq_account |-> "q2"] >>
      [] fid = "t" -> << [comment_tid |-> "c3", qq_account |-> "q1"] >>
      [] OTHER -> << >>

CommentIds == {"c0", "c1", "c2", "c3"}

\* the feeds present in the space during a behaviour
Spaces == {{"a", "b"}, {"s", "t"}, {"a", "s"}}

\* what monitor_read_feed can return: any list of at most MaxFeed of them
FeedLists(space) == UNION {[1..n -> space] : n \in 0..MaxFeed}

(***************************************************************************)
(* A dedup store is a Python dict[str, list[str]]: insertion ordered.  It  *)
(* is modelled as the sequence of its (key, value) pairs in dict order.    *)
(***************************************************************************)
Keys(store) == {store[i].k : i \in DOMAIN store}

KeySeq(store) == [i \in DOMAIN store |-> store[i].k]

\* store.get(fid, [])
Get(store, fid) ==
    IF fid \in Keys(store)
    THEN store[CHOOSE i \in DOMAIN store : store[i].k = fid].v
    ELSE << >>

\* while len(store) > cache_size: store.pop(next(iter(store)))
RECURSIVE EvictOldest(_, _)
EvictOldest(store, cache_size) ==
    IF Len(store) > cache_size
    THEN EvictOldest(Tail(store), cache_size)
    ELSE store

\* processed_list[fid] = []  (a key already present keeps its position)
SetEmpty(store, fid) ==
    IF fid \in Keys(store)
    THEN [i \in DOMAIN store |->
            IF store[i].k = fid THEN [k |-> fid, v |-> << >>] ELSE store[i]]
    ELSE Append(store, [k |-> fid, v |-> << >>])

\* variant: an append moves the record to the end, as an LRU would
SetDefaultAppend_Refresh(store, fid, tid) ==
    LET others == SelectSeq(store, LAMBDA r : r.k # fid)
    IN Append(others, [k |-> fid, v |-> Append(Get(store, fid), tid)])

\* processed_comments.setdefault(fid, []).append(tid)
SetDefaultAppend(store, fid, tid) ==
    IF fid \in Keys(store)
    THEN [i \in DOMAIN store |->
            IF store[i].k = fid
            THEN [k |-> fid, v |-> Append(store[i].v, tid)]
            ELSE store[i]]
    ELSE Append(store, [k |-> fid, v |-> <<tid>>])

\* variant: the eviction loop is missing
MarkHandled_NoEvict(store, fid, cache_size) == SetEmpty(store, fid)

\* processed_list[fid] = [] followed by the eviction loop
MarkHandled(store, fid, cache_size) ==
    EvictOldest(SetEmpty(store, fid), cache_size)

\* variant: the record is written anew with the last sub-id only
MarkReplied_Rewrite(store, fid, tid, cache_size) ==
    EvictOldest(Append(SelectSeq(store, LAMBDA r : r.k # fid),
                       [k |-> fid, v |-> <<tid>>]),
                cache_size)

\* setdefault(fid, []).append(tid) followed by the eviction loop
MarkReplied(store, fid, tid, cache_size) ==
    EvictOldest(SetDefaultAppend(store, fid, tid), cache_size)

\* the comments of a self-owned feed that still need a reply
RECURSIVE Unreplied(_, _, _)
Unreplied(cs, fid, store) ==
    IF cs = << >> THEN << >>
    ELSE LET c == Head(cs)
             rest == Unreplied(Tail(cs), fid, store)
         IN IF c.qq_account # qq_account
               /\ \A j \in DOMAIN Get(store, fid) : Get(store, fid)[j] # c.comment_tid
            THEN <<c>> \o rest
            ELSE rest

\* variant: every comment under the feed is taken
list_to_reply_Unfiltered(fid, store) == comments_list(fid)

\* list_to_reply of lines 248-254
list_to_reply(fid, store) == Unreplied(comments_list(fid), fid, store)

\* json.dump(store, f): the members of the document, in dict order
json_dump(store) == store

\* json.load(f): the dict built from the members in document order
RECURSIVE json_load(_)
json_load(doc) ==
    IF doc = << >> THEN << >>
    ELSE LET d == json_load(SubSeq(doc, 1, Len(doc) - 1))
             m == doc[Len(doc)]
         IN IF m.k \in Keys(d)
            THEN [i \in DOMAIN d |-> IF d[i].k = m.k THEN m ELSE d[i]]
            ELSE Append(d, m)

(***************************************************************************)
(* The two files.  A file is missing, or holds a whole document, or holds  *)
(* the beginning of one: open(file_path, 'w') empties the file and         *)
(* json.dump writes the document piece by piece, so a write that fails or  *)
(* a process that dies on the way leaves the members written so far and no *)
(* closing brace.  The text of a file is the sequence of its members.      *)
(***************************************************************************)
NoFiles == [list |-> "missing", comments |-> "missing"]

\* the beginnings of a document, the one that lacks only its end included
Beginnings(doc) == {SubSeq(doc, 1, k) : k \in 0..Len(doc)}

\* with open(file_path, 'w') as f: json.dump(store, f) inside try/except:
\* how it can end, given what the file was.  open() may raise and leave the
\* file as it was; the write may raise after the file was emptied
SaveOutcomes(store, kind, doc, faults) ==
    {[failed |-> FALSE, kind |-> "whole", doc |-> json_dump(store)]}
       \cup (IF faults
             THEN {[failed |-> TRUE, kind |-> kind, doc |-> doc]}
                     \cup {[failed |-> TRUE, kind |-> "partial", doc |-> b] :
                              b \in Beginnings(json_dump(store))}
             ELSE {})

\* variant: a file that cannot be parsed is taken as far as it goes
LoadOutcomes_Lenient(kind, doc, faults) ==
    IF kind = "missing"
    THEN {[failed |-> FALSE, store |-> << >>]}
    ELSE {[failed |-> FALSE, store |-> json_load(doc)]}

\* if os.path.exists(file_path): try: json.load(f) except: return {}; else
\* return {}: what is returned, given what the file is.  The beginning of a
\* document is no document, so json.load raises on it
LoadOutcomes(kind, doc, faults) ==
    IF kind = "missing"
    THEN {[failed |-> FALSE, store |-> << >>]}
    ELSE IF kind = "partial"
    THEN {[failed |-> TRUE, store |-> << >>]}
    ELSE {[failed |-> FALSE, store |-> json_load(doc)]}
            \cup (IF faults THEN {[failed |-> TRUE, store |-> << >>]} ELSE {})

\* variant: an exception inside the block leaves the lock held
Release_OnSuccess(held, name, failed) ==
    IF failed THEN held ELSE held \ {name}

\* the exit of `async with lock:`, whether the block failed or not
Release(held, name, failed) == held \ {name}

\* variant: the except clause logs nothing
Log_Silent(log, op, failed) == log

\* logger.error(...) in the except clause of a load or save
Log(log, op, failed) == IF failed THEN log \cup {op} ELSE log

\* an entry of monitor.read_list: a QQ number, written as a number or as a
\* string
ListEntry(is_int, text) == [is_int |-> is_int, text |-> text]

\* str(q)
Str(q) == q.text

\* variant: a blacklist excludes nobody
SkippedByList_WhiteOnly(cfg, fid) ==
    LET in_list == target_qq(fid) \in {Str(q) : q \in cfg.read_list}
    IN cfg.read_list_type = "whitelist" /\ ~in_list

\* the name-list policy, lines 238-241: TRUE when the feed is skipped
SkippedByList(cfg, fid) ==
    LET in_list == target_qq(fid) \in {Str(q) : q \in cfg.read_list}
    IN \/ (cfg.read_list_type = "whitelist" /\ ~in_list)
       \/ (cfg.read_list_type = "blacklist" /\ in_list)

(***************************************************************************)
(* Texts are sequences of characters.  A silent_hours text is made of     *)
(* two-digit numerals, ':', '-', ',', white space and anything else.       *)
(***************************************************************************)
Blank == " "
Colon == ":"
Dash == "-"
Comma == ","

\* str.strip()
RECURSIVE Strip(_)
Strip(t) ==
    IF t = << >> THEN t
    ELSE IF Head(t) = Blank THEN Strip(Tail(t))
    ELSE IF t[Len(t)] = Blank THEN Strip(SubSeq(t, 1, Len(t) - 1))
    ELSE t

\* token in text
Contains(t, token) == \E i \in DOMAIN t : t[i] = token

\* text.split(sep, 1) of a text that contains sep: what is before the first
\* sep and what is after it
SplitFirst(t, sep) ==
    LET i == CHOOSE j \in DOMAIN t :
                 t[j] = sep /\ \A k \in 1..(j - 1) : t[k] # sep
    IN << SubSeq(t, 1, i - 1), SubSeq(t, i + 1, Len(t)) >>

\* text.split(sep)
RECURSIVE Split(_, _)
Split(t, sep) ==
    IF ~Contains(t, sep) THEN << t >>
    ELSE << SplitFirst(t, sep)[1] >> \o Split(SplitFirst(t, sep)[2], sep)

Numerals == {"00", "07", "23", "24", "59", "60"}

NumeralValue(d) ==
    CASE d = "00" -> 0
      [] d = "07" -> 7
      [] d = "23" -> 23
      [] d = "24" -> 24
      [] d = "59" -> 59
      [] d = "60" -> 60

\* the digits of the text of an int, after white space and sign are taken off
IntDigits(t) ==
    LET s == Strip(t)
    IN IF s # << >> /\ s[1] = Dash THEN Tail(s) ELSE s

\* int(text) does not raise ValueError
IsInt(t) ==
    /\ IntDigits(t) # << >>
    /\ \A i \in DOMAIN IntDigits(t) : IntDigits(t)[i] \in Numerals

RECURSIVE DigitsValue(_)
DigitsValue(d) ==
    IF d = << >> THEN 0
    ELSE DigitsValue(SubSeq(d, 1, Len(d) - 1)) * 100 + NumeralValue(d[Len(d)])

\* int(text)
IntOf(t) ==
    IF Strip(t)[1] = Dash THEN 0 - DigitsValue(IntDigits(t))
    ELSE DigitsValue(IntDigits(t))

\* _parse_time_to_minutes returns None
NoMinutes == -1

\* variant: the hour 24 and the minute 60 are taken
parse_time_to_minutes_Lax(time_str) ==
    IF ~Contains(time_str, Colon) THEN NoMinutes
    ELSE LET hour_str == SplitFirst(time_str, Colon)[1]
             minute_str == SplitFirst(time_str, Colon)[2]
         IN IF ~IsInt(hour_str) \/ ~IsInt(minute_str) THEN NoMinutes
            ELSE IF /\ 0 <= IntOf(hour_str) /\ IntOf(hour_str) <= 24
                    /\ 0 <= IntOf(minute_str) /\ IntOf(minute_str) <= 60
                 THEN IntOf(hour_str) * 60 + IntOf(minute_str)
                 ELSE NoMinutes

\* _parse_time_to_minutes(time_str): "HH:MM" as minutes of the day, or None
parse_time_to_minutes(time_str) ==
    IF ~Contains(time_str, Colon) THEN NoMinutes
    ELSE LET hour_str == SplitFirst(time_str, Colon)[1]
             minute_str == SplitFirst(time_str, Colon)[2]
         IN IF ~IsInt(hour_str) \/ ~IsInt(minute_str) THEN NoMinutes
            ELSE IF /\ 0 <= IntOf(hour_str) /\ IntOf(hour_str) <= 23
                    /\ 0 <= IntOf(minute_str) /\ IntOf(minute_str) <= 59
                 THEN IntOf(hour_str) * 60 + IntOf(minute_str)
                 ELSE NoMinutes

\* variant: a range that ends before it starts matches nothing
InRange_NoWrap(start_time, end_time, current_time) ==
    start_time <= current_time /\ current_time <= end_time

\* lines 61-70: the test of one parsed range, which may go over midnight
InRange(start_time, end_time, current_time) ==
    IF start_time <= end_time
    THEN start_time <= current_time /\ current_time <= end_time
    ELSE current_time >= start_time \/ current_time <= end_time

\* one turn of "for period in periods": TRUE when is_silent is set
PeriodMatches(period, current_time) ==
    LET prd == Strip(period)
    IN /\ prd # << >>
       /\ Contains(prd, Dash)
       /\ LET start_time == parse_time_to_minutes(Strip(SplitFirst(prd, Dash)[1]))
              end_time == parse_time_to_minutes(Strip(SplitFirst(prd, Dash)[2]))
          IN /\ start_time # NoMinutes
             /\ end_time # NoMinutes
             /\ InRange(start_time, end_time, current_time)

\* is_silent at the end of the loop over the periods
IsSilent(silent_hours_config, current_time) ==
    /\ Strip(silent_hours_config) # << >>
    /\ \E i \in DOMAIN Split(silent_hours_config, Comma) :
          PeriodMatches(Split(silent_hours_config, Comma)[i], current_time)

\* variant: the two flags are also looked at outside the silent periods
is_in_silent_period_Flags(silent_hours_config, like_during_silent, comment_during_silent, current_time) ==
    << IsSilent(silent_hours_config, current_time),
       like_during_silent, comment_during_silent >>

\* _is_in_silent_period: (is_silent, allow_like, allow_comment)
is_in_silent_period(silent_hours_config, like_during_silent, comment_during_silent, current_time) ==
    IF IsSilent(silent_hours_config, current_time)
    THEN << TRUE, like_during_silent, comment_during_silent >>
    ELSE << FALSE, TRUE, TRUE >>

\* now.hour * 60 + now.minute
CurrentTime(t) == (t \div 60) % 1440

\* a probability is a number of quarters: 0.0, 0.5 and 1.0; what
\* random.random() gives is below 1.0: here 0.0 or 0.75
Whole == 4
Half == Whole \div 2
Possibilities == {0, Half, Whole}
Draws == {0, Whole - 1}

\* random.random() was not called
NoDraw == -1

\* random.random() <= possibility
DrawPasses(draw, possibility) == draw <= possibility

(***************************************************************************)
(* Configuration (plugin.get_config), fixed for a behaviour.               *)
(***************************************************************************)
Configs ==
    [ processed_feeds_cache_size : 1..MaxCap,
      processed_comments_cache_size : 1..MaxCap,
      read_list : {{}},
      read_list_type : {"blacklist"},
      enable_auto_reply : {TRUE},
      silent_hours : {<< >>},
      like_during_silent : {FALSE},
      comment_during_silent : {FALSE},
      like_possibility : {Half},
      comment_possibility : {Half},
      check_interval_minutes : {1},
      post_cooldown_minutes : {2},
      browse_cooldown_minutes : {1},
      diary_enabled : {FALSE},
      diary_schedule_time : {<<0, 18>>} ]

(***************************************************************************)
(* State.                                                                  *)
(***************************************************************************)
VARIABLES
    config,               \* the plugin configuration
    space,                \* the feeds present in the space
    pc,                   \* pc[p]: where invocation p of _browse_feeds is
    processed_list,       \* processed_list[p]: the dict held by invocation p
    processed_comments,   \* processed_comments[p]
    file_list,            \* processed_list.json
    file_comments,        \* processed_comments.json
    disk,                 \* what each of the two files is: missing, a whole
                          \* document, or the beginning of one
    io_faults,            \* whether opening, reading or writing a file can fail
    locks,                \* the file locks that are held
    logged,               \* the file operations that have logged an error
    feeds_list,           \* feeds_list[p]: result of monitor_read_feed
    idx,                  \* idx[p]: position of the for loop in feeds_list
    to_reply,             \* to_reply[p]: rest of list_to_reply
    is_silent,            \* is_silent[p]: the pass is in a silent period
    allow_like,           \* allow_like[p]: the like permission of the pass
    allow_comment,        \* allow_comment[p]: its comment permission
    comment_draw,         \* comment_draw[p]: random.random() of line 345
    like_draw,            \* like_draw[p]: random.random() of line 355
    outcome,              \* outcome[p]: how check_feeds ended
    calls,                \* calls[p]: remote calls of the running pass
    commented,            \* feeds on which a comment_feed call has succeeded
    liked,                \* feeds on which a like_feed call has succeeded
    replied,              \* comments on which a reply_feed call has succeeded
    histList,             \* the last keys created in a handled-items dict
    histComments,         \* the last keys created in a replied-comments dict
    now,                  \* time.time()
    last_browse_time,     \* RoutineRunner.last_browse_time
    started,              \* the invocations that have begun (SpecConc)
    lpc,                  \* where _routine_loop is (SpecLoop)
    activity,             \* the activity of the running cycle
    last_post_time,       \* RoutineRunner.last_post_time
    gate,                 \* the last evaluation of _llm_decide
    post_result,          \* how the last _post_feed ended
    result,               \* the local `result` of _llm_decide (SpecGate)
    is_running,           \* RoutineRunner.is_running
    diary,                \* the tasks made for _generate_diary
    last_diary_date,      \* RoutineRunner.last_diary_date
    tasks                 \* the calls of start() and stop(), and the loop
                          \* tasks that self.task no longer points to

feedVars == <<pc, processed_list, processed_comments, file_list, file_comments,
              disk, io_faults, locks, logged,
              feeds_list, idx, to_reply, is_silent, allow_like, allow_comment,
              comment_draw, like_draw, outcome, calls, commented, liked, replied, histList,
              histComments, last_browse_time>>

runVars == <<result, is_running, diary, last_diary_date>>

loopState == <<lpc, activity, last_post_time, gate, post_result, runVars>>

envVars == <<config, space, now, started, tasks, tasks, loopState>>

vars == <<envVars, feedVars>>

Epoch == 1000      \* time.time() when the process starts: far beyond any cooldown

\* no call of start() or stop() yet, and no task but the one of self.task
NoTasks == [orphans |-> 0, calls |-> 0, last |-> "none"]

NoOutcome == [status |-> "none", msg |-> ""]
Returned(ok, msg) == [status |-> IF ok THEN "true" ELSE "false", msg |-> msg]
Raised == [status |-> "raised", msg |-> "exception"]

InitFeed ==
    /\ pc = [p \in Procs |-> "idle"]
    /\ processed_list = [p \in Procs |-> << >>]
    /\ processed_comments = [p \in Procs |-> << >>]
    /\ file_list = << >>
    /\ file_comments = << >>
    /\ disk = NoFiles
    /\ io_faults = FALSE
    /\ locks = {}
    /\ logged = {}
    /\ feeds_list = [p \in Procs |-> << >>]
    /\ idx = [p \in Procs |-> 0]
    /\ to_reply = [p \in Procs |-> << >>]
    /\ is_silent = [p \in Procs |-> FALSE]
    /\ allow_like = [p \in Procs |-> TRUE]
    /\ allow_comment = [p \in Procs |-> TRUE]
    /\ comment_draw = [p \in Procs |-> NoDraw]
    /\ like_draw = [p \in Procs |-> NoDraw]
    /\ outcome = [p \in Procs |-> NoOutcome]
    /\ calls = [p \in Procs |-> << >>]
    /\ commented = {}
    /\ liked = {}
    /\ replied = {}
    /\ histList = << >>
    /\ histComments = << >>
    /\ last_browse_time = 0

\* one evaluation of _llm_decide: the action, whether the cooldown check
\* passed, whether the oracle was called, what was returned, whether the
\* evaluation raised instead of returning
Gate(action, passed, asked, decision, raised) ==
    [action |-> action, passed |-> passed, asked |-> asked,
     decision |-> decision, raised |-> raised]

NoGate == Gate("none", FALSE, FALSE, FALSE, FALSE)

\* a text that is not a string
None == <<"None">>

NoResult == [kind |-> "none", ok |-> FALSE, text |-> None]

\* last_diary_date = None
NoDate == -1

\* RoutineRunner.__init__; the loop is not running
InitRunner ==
    /\ lpc = "off"
    /\ activity = "none"
    /\ last_post_time = 0
    /\ gate = NoGate
    /\ post_result = "none"
    /\ result = NoResult
    /\ is_running = FALSE
    /\ diary = << >>
    /\ last_diary_date = NoDate

Init ==
    /\ config \in Configs
    /\ space \in Spaces
    /\ now = Epoch
    /\ started = {}
    /\ tasks = NoTasks
    /\ InitRunner
    /\ InitFeed

(***************************************************************************)
(* RoutineRunner._browse_feeds and FeedMonitor.check_feeds, invocation p.  *)
(***************************************************************************)
memVars == <<processed_list, processed_comments>>
ioVars == <<disk, io_faults, locks, logged>>
fileVars == <<file_list, file_comments, ioVars>>
permVars == <<is_silent, allow_like, allow_comment>>
drawVars == <<comment_draw, like_draw>>
loopVars == <<feeds_list, idx, to_reply, permVars, drawVars>>
remoteVars == <<calls, commented, liked, replied>>
histVars == <<histList, histComments>>

\* variant: the list is gone through from its end
CurFeed_Last(p) == feeds_list[p][Len(feeds_list[p]) + 1 - idx[p]]

\* `feed` in "for feed in feeds_list"
CurFeed(p) == feeds_list[p][idx[p]]

\* the last MaxCap keys created, oldest first
Recent(hist, key) ==
    LET h == Append(hist, key)
    IN IF Len(h) > MaxCap THEN Tail(h) ELSE h

\* variant: an exception of check_feeds leaves the handler at once
EndPass_NoFinally(p, res) ==
    /\ outcome' = [outcome EXCEPT ![p] = res]
    /\ pc' = [pc EXCEPT ![p] = IF res.status = "raised" THEN "idle" ELSE "return"]

\* check_feeds ends: back in _browse_feeds after the await of line 505
EndPass(p, res) ==
    /\ outcome' = [outcome EXCEPT ![p] = res]
    /\ pc' = [pc EXCEPT ![p] = IF res.status = "raised" THEN "finally_list" ELSE "return"]

\* _browse_feeds up to the first load: the cookie renewal may fail, and then
\* the handler returns before anything is loaded
BrowseStart(p) ==
    /\ pc[p] = "idle"
    /\ \/ /\ pc' = [pc EXCEPT ![p] = "load_list"]
          /\ outcome' = [outcome EXCEPT ![p] = NoOutcome]
       \/ /\ pc' = pc
          /\ outcome' = [outcome EXCEPT ![p] = [status |-> "norun", msg |-> ""]]
    /\ UNCHANGED <<memVars, fileVars, loopVars, remoteVars, histVars,
                   last_browse_time>>

\* _save_processed_list(store), lines 111-120
save_processed_list(store) ==
    /\ "list" \notin locks
    /\ \E w \in SaveOutcomes(store, disk.list, file_list, io_faults) :
          /\ file_list' = w.doc
          /\ disk' = [disk EXCEPT !.list = w.kind]
          /\ logged' = Log(logged, "save_list", w.failed)
          /\ locks' = Release(locks \cup {"list"}, "list", w.failed)
    /\ UNCHANGED <<file_comments, io_faults>>

\* _save_processed_comments(store), lines 141-150
save_processed_comments(store) ==
    /\ "comments" \notin locks
    /\ \E w \in SaveOutcomes(store, disk.comments, file_comments, io_faults) :
          /\ file_comments' = w.doc
          /\ disk' = [disk EXCEPT !.comments = w.kind]
          /\ logged' = Log(logged, "save_comments", w.failed)
          /\ locks' = Release(locks \cup {"comments"}, "comments", w.failed)
    /\ UNCHANGED <<file_list, io_faults>>

\* processed_list = await _load_processed_list(), lines 123-138
LoadProcessedList(p) ==
    /\ pc[p] = "load_list"
    /\ "list" \notin locks
    /\ \E r \in LoadOutcomes(disk.list, file_list, io_faults) :
          /\ processed_list' = [processed_list EXCEPT ![p] = r.store]
          /\ logged' = Log(logged, "load_list", r.failed)
          /\ locks' = Release(locks \cup {"list"}, "list", r.failed)
    /\ pc' = [pc EXCEPT ![p] = "load_comments"]
    /\ UNCHANGED <<processed_comments, file_list, file_comments, disk, io_faults,
                   loopVars, outcome, remoteVars, histVars, last_browse_time>>

\* processed_comments = await _load_processed_comments()
LoadProcessedComments(p) ==
    /\ pc[p] = "load_comments"
    /\ "comments" \notin locks
    /\ \E r \in LoadOutcomes(disk.comments, file_comments, io_faults) :
          /\ processed_comments' = [processed_comments EXCEPT ![p] = r.store]
          /\ logged' = Log(logged, "load_comments", r.failed)
          /\ locks' = Release(locks \cup {"comments"}, "comments", r.failed)
    /\ pc' = [pc EXCEPT ![p] = "check"]
    /\ UNCHANGED <<processed_list, file_list, file_comments, disk, io_faults,
                   loopVars, outcome, remoteVars, histVars, last_browse_time>>

\* variant: a silent pass is never given up
SkipsPass_Never(perm) == FALSE

\* lines 187-192: silent, and neither likes nor comments are allowed
SkipsPass(perm) == perm[1] /\ ~perm[2] /\ ~perm[3]

\* check_feeds from its entry to the feed loop
CheckFeedsBegin(p) ==
    /\ pc[p] = "check"
    /\ LET perm == is_in_silent_period(config.silent_hours,
                                       config.like_during_silent,
                                       config.comment_during_silent,
                                       CurrentTime(now))
       IN /\ is_silent' = [is_silent EXCEPT ![p] = perm[1]]
          /\ allow_like' = [allow_like EXCEPT ![p] = perm[2]]
          /\ allow_comment' = [allow_comment EXCEPT ![p] = perm[3]]
          /\ IF SkipsPass(perm)
             THEN EndPass(p, Returned(TRUE, "silent")) /\ UNCHANGED <<feeds_list, idx>>
             ELSE \/ EndPass(p, Raised) /\ UNCHANGED <<feeds_list, idx>>
                  \/ \E m \in {"no_model", "cookies", "fetch"} :
                        EndPass(p, Returned(FALSE, m)) /\ UNCHANGED <<feeds_list, idx>>
                  \/ \E fl \in FeedLists(space) :
                        /\ feeds_list' = [feeds_list EXCEPT ![p] = fl]
                        /\ IF Len(fl) = 0
                           THEN EndPass(p, Returned(TRUE, "success")) /\ UNCHANGED idx
                           ELSE /\ idx' = [idx EXCEPT ![p] = 1]
                                /\ pc' = [pc EXCEPT ![p] = "feed"]
                                /\ UNCHANGED outcome
    /\ UNCHANGED <<memVars, fileVars, to_reply, drawVars, remoteVars, histVars,
                   last_browse_time>>

\* variant: the membership test is missing
AlreadyHandled_Never(store, fid) == FALSE

\* fid in processed_list
AlreadyHandled(store, fid) == fid \in Keys(store)

\* one turn of "for feed in feeds_list" up to the branch taken for the feed
NextFeed(p) ==
    /\ pc[p] = "feed"
    /\ IF idx[p] > Len(feeds_list[p])
       THEN EndPass(p, Returned(TRUE, "success")) /\ UNCHANGED <<idx, to_reply>>
       ELSE LET fid == CurFeed(p)
                todo == list_to_reply(fid, processed_comments[p])
            IN /\ UNCHANGED outcome
               /\ IF SkippedByList(config, fid)
                  THEN /\ idx' = [idx EXCEPT ![p] = @ + 1]
                       /\ UNCHANGED <<pc, to_reply>>
                  ELSE IF target_qq(fid) = qq_account
                  THEN IF ~config.enable_auto_reply \/ Len(todo) = 0
                       THEN /\ idx' = [idx EXCEPT ![p] = @ + 1]
                            /\ UNCHANGED <<pc, to_reply>>
                       ELSE /\ to_reply' = [to_reply EXCEPT ![p] = todo]
                            /\ pc' = [pc EXCEPT ![p] = "reply"]
                            /\ UNCHANGED idx
                  ELSE IF AlreadyHandled(processed_list[p], fid)
                       THEN /\ idx' = [idx EXCEPT ![p] = @ + 1]
                            /\ UNCHANGED <<pc, to_reply>>
                       ELSE /\ pc' = [pc EXCEPT ![p] = "generate"]
                            /\ UNCHANGED <<idx, to_reply>>
    /\ comment_draw' = [comment_draw EXCEPT ![p] = NoDraw]
    /\ like_draw' = [like_draw EXCEPT ![p] = NoDraw]
    /\ UNCHANGED <<memVars, fileVars, feeds_list, permVars, remoteVars,
                   histVars, last_browse_time>>

\* the impression lookup and llm_api.generate_with_model for a comment
GenerateComment(p) ==
    /\ pc[p] = "generate"
    /\ \/ pc' = [pc EXCEPT ![p] = "comment"] /\ UNCHANGED outcome
       \/ \E m \in {"generate_comment", "exception"} : EndPass(p, Returned(FALSE, m))
    /\ UNCHANGED <<memVars, fileVars, loopVars, remoteVars, histVars,
                   last_browse_time>>

Call(kind, id, ok) == [kind |-> kind, id |-> id, ok |-> ok]

\* variant: the permission is not looked at
Admitted_DrawOnly(allowed, draw, possibility) == DrawPasses(draw, possibility)

\* allow_x and random.random() <= x_possibility
Admitted(allowed, draw, possibility) == allowed /\ DrawPasses(draw, possibility)

\* `and` does not evaluate its right side when the left one is false
Drawn(allowed, draw) == IF allowed THEN draw ELSE NoDraw

\* lines 344-352: the gate of the comment, then comment_feed
CommentFeed(p) ==
    /\ pc[p] = "comment"
    /\ LET fid == CurFeed(p)
       IN \E draw \in Draws :
          /\ comment_draw' = [comment_draw EXCEPT ![p] = Drawn(allow_comment[p], draw)]
          /\ IF ~Admitted(allow_comment[p], draw, config.comment_possibility)
             THEN /\ pc' = [pc EXCEPT ![p] = "like"]
                  /\ UNCHANGED <<outcome, calls, commented>>
             ELSE \/ /\ calls' = [calls EXCEPT ![p] = Append(@, Call("comment", fid, TRUE))]
                     /\ commented' = commented \cup {fid}
                     /\ pc' = [pc EXCEPT ![p] = "like"]
                     /\ UNCHANGED outcome
                  \/ /\ calls' = [calls EXCEPT ![p] = Append(@, Call("comment", fid, FALSE))]
                     /\ EndPass(p, Returned(FALSE, "comment"))
                     /\ UNCHANGED commented
    /\ UNCHANGED <<memVars, fileVars, feeds_list, idx, to_reply, permVars,
                   like_draw, liked, replied, histVars, last_browse_time>>

\* lines 354-369: the gate of the like, then like_feed; when the feed is
\* done it is recorded and the dict is cut to its cache size
LikeFeed(p) ==
    /\ pc[p] = "like"
    /\ LET fid == CurFeed(p)
           done == /\ processed_list' = [processed_list EXCEPT ![p] =
                         MarkHandled(@, fid, config.processed_feeds_cache_size)]
                   /\ histList' = IF fid \in Keys(processed_list[p])
                                  THEN histList ELSE Recent(histList, fid)
                   /\ pc' = [pc EXCEPT ![p] = "save"]
                   /\ UNCHANGED outcome
       IN \E draw \in Draws :
          /\ like_draw' = [like_draw EXCEPT ![p] = Drawn(allow_like[p], draw)]
          /\ IF ~Admitted(allow_like[p], draw, config.like_possibility)
             THEN /\ done
                  /\ UNCHANGED <<calls, liked>>
             ELSE \/ /\ calls' = [calls EXCEPT ![p] = Append(@, Call("like", fid, TRUE))]
                     /\ liked' = liked \cup {fid}
                     /\ done
                  \/ /\ calls' = [calls EXCEPT ![p] = Append(@, Call("like", fid, FALSE))]
                     /\ EndPass(p, Returned(FALSE, "like"))
                     /\ UNCHANGED <<liked, processed_list, histList>>
    /\ UNCHANGED <<processed_comments, fileVars, feeds_list, idx, to_reply,
                   permVars, comment_draw, commented, replied, histComments,
                   last_browse_time>>

\* variant: the dict is written at the end of the pass only
SaveProcessedList_Deferred(p) ==
    /\ pc[p] = "save"
    /\ idx' = [idx EXCEPT ![p] = @ + 1]
    /\ pc' = [pc EXCEPT ![p] = "feed"]
    /\ UNCHANGED <<memVars, fileVars, feeds_list, to_reply, permVars, drawVars,
                   outcome, remoteVars, histVars, last_browse_time>>

\* await _save_processed_list(processed_list), line 370
SaveProcessedList(p) ==
    /\ pc[p] = "save"
    /\ save_processed_list(processed_list[p])
    /\ idx' = [idx EXCEPT ![p] = @ + 1]
    /\ pc' = [pc EXCEPT ![p] = "feed"]
    /\ UNCHANGED <<memVars, feeds_list, to_reply, permVars,
                   drawVars, outcome, remoteVars, histVars, last_browse_time>>

\* what a failed reply_feed does to the pass, lines 301-303
ReplyFailed(p) ==
    /\ EndPass(p, Returned(FALSE, "reply"))
    /\ UNCHANGED <<to_reply, idx>>

\* what follows a successful reply_feed, lines 304-311
ReplySucceeded(p, fid, tid) ==
    /\ processed_comments' = [processed_comments EXCEPT ![p] =
          MarkReplied(@, fid, tid, config.processed_comments_cache_size)]
    /\ histComments' = IF fid \in Keys(processed_comments[p])
                       THEN histComments ELSE Recent(histComments, fid)
    /\ to_reply' = [to_reply EXCEPT ![p] = Tail(@)]
    /\ IF Len(to_reply[p]) = 1
       THEN /\ idx' = [idx EXCEPT ![p] = @ + 1]
            /\ pc' = [pc EXCEPT ![p] = "feed"]
       ELSE UNCHANGED <<idx, pc>>
    /\ UNCHANGED <<outcome, file_comments>>

\* one turn of "for comment in list_to_reply"
ReplyComment(p) ==
    /\ pc[p] = "reply"
    /\ LET fid == CurFeed(p)
           tid == Head(to_reply[p]).comment_tid
       IN \/ /\ \E m \in {"generate_reply", "exception"} : EndPass(p, Returned(FALSE, m))
             /\ UNCHANGED <<calls, replied, processed_comments, histComments,
                            to_reply, idx, file_comments>>
          \/ /\ calls' = [calls EXCEPT ![p] = Append(@, Call("reply", tid, FALSE))]
             /\ ReplyFailed(p)
             /\ UNCHANGED <<replied, processed_comments, histComments, file_comments>>
          \/ /\ calls' = [calls EXCEPT ![p] = Append(@, Call("reply", tid, TRUE))]
             /\ replied' = replied \cup {tid}
             /\ ReplySucceeded(p, fid, tid)
    /\ UNCHANGED <<processed_list, file_list, ioVars, feeds_list, permVars,
                   drawVars, commented, liked, histList, last_browse_time>>

\* the value _browse_feeds gives last_browse_time once check_feeds has returned
BrowseStamp(res, t, last) == t

\* self.last_browse_time = time.time(), line 506
BrowseReturn(p) ==
    /\ pc[p] = "return"
    /\ last_browse_time' = BrowseStamp(outcome[p], now, last_browse_time)
    /\ pc' = [pc EXCEPT ![p] = "finally_list"]
    /\ UNCHANGED <<memVars, fileVars, loopVars, outcome, remoteVars, histVars>>

\* finally: await _save_processed_list(processed_list)
FinallySaveList(p) ==
    /\ pc[p] = "finally_list"
    /\ save_processed_list(processed_list[p])
    /\ pc' = [pc EXCEPT ![p] = "finally_comments"]
    /\ UNCHANGED <<memVars, loopVars, outcome, remoteVars,
                   histVars, last_browse_time>>

\* finally: await _save_processed_comments(processed_comments); the handler
\* ends and its locals are gone
FinallySaveComments(p) ==
    /\ pc[p] = "finally_comments"
    /\ save_processed_comments(processed_comments[p])
    /\ pc' = [pc EXCEPT ![p] = "idle"]
    /\ processed_list' = [processed_list EXCEPT ![p] = << >>]
    /\ processed_comments' = [processed_comments EXCEPT ![p] = << >>]
    /\ feeds_list' = [feeds_list EXCEPT ![p] = << >>]
    /\ idx' = [idx EXCEPT ![p] = 0]
    /\ to_reply' = [to_reply EXCEPT ![p] = << >>]
    /\ is_silent' = [is_silent EXCEPT ![p] = FALSE]
    /\ allow_like' = [allow_like EXCEPT ![p] = TRUE]
    /\ allow_comment' = [allow_comment EXCEPT ![p] = TRUE]
    /\ comment_draw' = [comment_draw EXCEPT ![p] = NoDraw]
    /\ like_draw' = [like_draw EXCEPT ![p] = NoDraw]
    /\ calls' = [calls EXCEPT ![p] = << >>]
    /\ outcome' = [outcome EXCEPT ![p] = [status |-> @.status, msg |-> ""]]
    /\ UNCHANGED <<commented, liked, replied, histVars, last_browse_time>>

\* the process dies in the middle of a pass and is started again: everything
\* in memory is lost, the two files and the remote service keep their state
Crash ==
    /\ \E p \in Procs : pc[p] # "idle"
    /\ pc' = [p \in Procs |-> "idle"]
    /\ processed_list' = [p \in Procs |-> << >>]
    /\ processed_comments' = [p \in Procs |-> << >>]
    /\ feeds_list' = [p \in Procs |-> << >>]
    /\ idx' = [p \in Procs |-> 0]
    /\ to_reply' = [p \in Procs |-> << >>]
    /\ is_silent' = [p \in Procs |-> FALSE]
    /\ allow_like' = [p \in Procs |-> TRUE]
    /\ allow_comment' = [p \in Procs |-> TRUE]
    /\ comment_draw' = [p \in Procs |-> NoDraw]
    /\ like_draw' = [p \in Procs |-> NoDraw]
    /\ calls' = [p \in Procs |-> << >>]
    /\ outcome' = [p \in Procs |-> NoOutcome]
    /\ last_browse_time' = 0
    /\ UNCHANGED <<fileVars, commented, liked, replied, histVars>>

(***************************************************************************)
(* Spec: one browse handler at a time, invoked whenever the scheduler      *)
(* admits it.                                                              *)
(***************************************************************************)
Next ==
    \/ (BrowseStart(Runner) /\ UNCHANGED envVars)
    \/ (LoadProcessedList(Runner) /\ UNCHANGED envVars)
    \/ (LoadProcessedComments(Runner) /\ UNCHANGED envVars)
    \/ (CheckFeedsBegin(Runner) /\ UNCHANGED envVars)
    \/ (NextFeed(Runner) /\ UNCHANGED envVars)
    \/ (GenerateComment(Runner) /\ UNCHANGED envVars)
    \/ (CommentFeed(Runner) /\ UNCHANGED envVars)
    \/ (LikeFeed(Runner) /\ UNCHANGED envVars)
    \/ (SaveProcessedList(Runner) /\ UNCHANGED envVars)
    \/ (ReplyComment(Runner) /\ UNCHANGED envVars)
    \/ (BrowseReturn(Runner) /\ UNCHANGED envVars)
    \/ (FinallySaveList(Runner) /\ UNCHANGED envVars)
    \/ (FinallySaveComments(Runner) /\ UNCHANGED envVars)

Spec == Init /\ [][Next]_vars

(***************************************************************************)
(* SpecCrash: the same, and the process may die and be started again.      *)
(***************************************************************************)
NextCrash ==
    \/ (BrowseStart(Runner) /\ UNCHANGED envVars)
    \/ (LoadProcessedList(Runner) /\ UNCHANGED envVars)
    \/ (LoadProcessedComments(Runner) /\ UNCHANGED envVars)
    \/ (CheckFeedsBegin(Runner) /\ UNCHANGED envVars)
    \/ (NextFeed(Runner) /\ UNCHANGED envVars)
    \/ (GenerateComment(Runner) /\ UNCHANGED envVars)
    \/ (CommentFeed(Runner) /\ UNCHANGED envVars)
    \/ (LikeFeed(Runner) /\ UNCHANGED envVars)
    \/ (SaveProcessedList(Runner) /\ UNCHANGED envVars)
    \/ (ReplyComment(Runner) /\ UNCHANGED envVars)
    \/ (BrowseReturn(Runner) /\ UNCHANGED envVars)
    \/ (FinallySaveList(Runner) /\ UNCHANGED envVars)
    \/ (FinallySaveComments(Runner) /\ UNCHANGED envVars)
    \/ (Crash /\ UNCHANGED envVars)

SpecCrash == Init /\ [][NextCrash]_vars

(***************************************************************************)
(* SpecConc: two invocations of _browse_feeds overlap (the loop's and a    *)
(* second one), each with its own dicts, both on the same two files.       *)
(* Each is made once.                                                      *)
(***************************************************************************)
InitConc ==
    /\ config \in {c \in Configs : /\ c.processed_feeds_cache_size = MaxCap
                                   /\ c.processed_comments_cache_size = MaxCap}
    /\ space = {"a", "s"}
    /\ now = Epoch
    /\ started = {}
    /\ tasks = NoTasks
    /\ InitRunner
    /\ InitFeed

\* each of the two invocations is made once
ConcStart(p) ==
    /\ p \notin started
    /\ started' = started \cup {p}
    /\ BrowseStart(p)
    /\ UNCHANGED <<config, space, now, tasks, loopState>>

NextConc ==
    \/ \E p \in Procs : ConcStart(p)
    \/ \E p \in Procs : LoadProcessedList(p) /\ UNCHANGED envVars
    \/ \E p \in Procs : LoadProcessedComments(p) /\ UNCHANGED envVars
    \/ \E p \in Procs : CheckFeedsBegin(p) /\ UNCHANGED envVars
    \/ \E p \in Procs : NextFeed(p) /\ UNCHANGED envVars
    \/ \E p \in Procs : GenerateComment(p) /\ UNCHANGED envVars
    \/ \E p \in Procs : CommentFeed(p) /\ UNCHANGED envVars
    \/ \E p \in Procs : LikeFeed(p) /\ UNCHANGED envVars
    \/ \E p \in Procs : SaveProcessedList(p) /\ UNCHANGED envVars
    \/ \E p \in Procs : ReplyComment(p) /\ UNCHANGED envVars
    \/ \E p \in Procs : BrowseReturn(p) /\ UNCHANGED envVars
    \/ \E p \in Procs : FinallySaveList(p) /\ UNCHANGED envVars
    \/ \E p \in Procs : FinallySaveComments(p) /\ UNCHANGED envVars

SpecConc == InitConc /\ [][NextConc]_vars

(***************************************************************************)
(* SpecBatch: one pass of a fresh installation over a fetched list of      *)
(* MaxBatch feeds of other people; the pass is at the top of its feed      *)
(* loop.                                                                   *)
(***************************************************************************)
MaxBatch == 3      \* the fetched list has MaxBatch entries

InitBatch ==
    /\ config \in Configs
    /\ space = {"a", "b"}
    /\ now = Epoch
    /\ started = {}
    /\ tasks = NoTasks
    /\ InitRunner
    /\ pc = [p \in Procs |-> IF p = Runner THEN "feed" ELSE "idle"]
    /\ processed_list = [p \in Procs |-> << >>]
    /\ processed_comments = [p \in Procs |-> << >>]
    /\ file_list = << >>
    /\ file_comments = << >>
    /\ disk = NoFiles
    /\ io_faults = FALSE
    /\ locks = {}
    /\ logged = {}
    /\ feeds_list \in {[p \in Procs |-> IF p = Runner THEN fl ELSE << >>] :
                          fl \in [1..MaxBatch -> space]}
    /\ idx = [p \in Procs |-> IF p = Runner THEN 1 ELSE 0]
    /\ to_reply = [p \in Procs |-> << >>]
    /\ is_silent = [p \in Procs |-> FALSE]
    /\ allow_like = [p \in Procs |-> TRUE]
    /\ allow_comment = [p \in Procs |-> TRUE]
    /\ comment_draw = [p \in Procs |-> NoDraw]
    /\ like_draw = [p \in Procs |-> NoDraw]
    /\ outcome = [p \in Procs |-> NoOutcome]
    /\ calls = [p \in Procs |-> << >>]
    /\ commented = {}
    /\ liked = {}
    /\ replied = {}
    /\ histList = << >>
    /\ histComments = << >>
    /\ last_browse_time = 0

NextBatch ==
    \/ (NextFeed(Runner) /\ UNCHANGED envVars)
    \/ (GenerateComment(Runner) /\ UNCHANGED envVars)
    \/ (CommentFeed(Runner) /\ UNCHANGED envVars)
    \/ (LikeFeed(Runner) /\ UNCHANGED envVars)
    \/ (SaveProcessedList(Runner) /\ UNCHANGED envVars)
    \/ (BrowseReturn(Runner) /\ UNCHANGED envVars)
    \/ (FinallySaveList(Runner) /\ UNCHANGED envVars)
    \/ (FinallySaveComments(Runner) /\ UNCHANGED envVars)

SpecBatch == InitBatch /\ [][NextBatch]_vars

(***************************************************************************)
(* SpecSilent: the silent periods.  The space has no feed, so that a pass  *)
(* that is not given up ends after its fetch.  The silent_hours text is    *)
(* one period or two, each a range of two times of the day or a text that  *)
(* is not one; the pass is made at several times of the day.               *)
(***************************************************************************)

\* the number whose numeral is d, back to its numeral: "%02d"
NumeralOf(n) == CHOOSE d \in Numerals : NumeralValue(d) = n

\* the times of the day that the ranges are made of, in minutes
RangeTimes == {0, 7 * 60, 23 * 60, 23 * 60 + 59}

\* "HH:MM"
TimeText(v) == << NumeralOf(v \div 60), Colon, NumeralOf(v % 60) >>

\* "HH:MM-HH:MM"
RangeText(r) == TimeText(r[1]) \o << Dash >> \o TimeText(r[2])

Ranges == RangeTimes \X RangeTimes

\* 23:00-07:00 and 07:00-23:00
MainRanges == {<< 23 * 60, 7 * 60 >>, << 7 * 60, 23 * 60 >>}

\* periods that are no range: no '-', no ':', not a number, an hour that is
\* no hour, a minute that is no minute, nothing at all
Malformed ==
    { TimeText(420),
      << "07", "00", Dash, "23", Colon, "00" >>,
      << "07", Colon, "00", Dash, "23", "00" >>,
      << "x", Colon, "00", Dash, "23", Colon, "00" >>,
      << "07", Colon, "00", Dash, "24", Colon, "00" >>,
      << "24", Colon, "00", Dash, "07", Colon, "00" >>,
      << "07", Colon, "00", Dash, "23", Colon, "60" >>,
      << "07", Colon, "00", Dash, Dash, "07", Colon, "00" >>,
      << Blank >> }

Periods == {RangeText(r) : r \in Ranges} \cup Malformed

\* "period,period"
Joined(prd, other) == prd \o << Comma >> \o other

SilentHours ==
    {<< >>} \cup Periods
       \cup {Joined(prd, RangeText(r)) : prd \in Periods, r \in MainRanges}
       \cup {Joined(RangeText(r), prd) : r \in MainRanges, prd \in Malformed}
       \cup {Joined(prd, other) : prd \in Malformed, other \in Malformed}

\* the time.time() at which the clock shows h:m
At(h, m) == (h * 60 + m) * 60

Clocks == {At(0, 0), At(6, 59), At(7, 0), At(7, 1), At(12, 0), At(23, 0),
           At(23, 30), At(23, 59)}

InitSilent ==
    /\ config \in {[c EXCEPT !.silent_hours = sh,
                              !.like_during_silent = fl[1],
                              !.comment_during_silent = fl[2]] :
                       sh \in SilentHours, fl \in BOOLEAN \X BOOLEAN,
                       c \in {d \in Configs :
                                 /\ d.processed_feeds_cache_size = MaxCap
                                 /\ d.processed_comments_cache_size = MaxCap}}
    /\ space = {}
    /\ now \in Clocks
    /\ started = {}
    /\ tasks = NoTasks
    /\ InitRunner
    /\ InitFeed

NextSilent ==
    \/ (BrowseStart(Runner) /\ UNCHANGED envVars)
    \/ (LoadProcessedList(Runner) /\ UNCHANGED envVars)
    \/ (LoadProcessedComments(Runner) /\ UNCHANGED envVars)
    \/ (CheckFeedsBegin(Runner) /\ UNCHANGED envVars)
    \/ (BrowseReturn(Runner) /\ UNCHANGED envVars)
    \/ (FinallySaveList(Runner) /\ UNCHANGED envVars)
    \/ (FinallySaveComments(Runner) /\ UNCHANGED envVars)

SpecSilent == InitSilent /\ [][NextSilent]_vars

(***************************************************************************)
(* SpecPerm: passes over one feed of somebody else, under every setting of *)
(* the two flags and the two probabilities, the whole day being silent or  *)
(* no time of it.                                                          *)
(***************************************************************************)
InitPerm ==
    /\ config \in {[c EXCEPT !.silent_hours = sh,
                              !.like_during_silent = fl[1],
                              !.comment_during_silent = fl[2],
                              !.like_possibility = ps[1],
                              !.comment_possibility = ps[2]] :
                       sh \in {<< >>, RangeText(<< 0, 23 * 60 + 59 >>)},
                       fl \in BOOLEAN \X BOOLEAN,
                       ps \in Possibilities \X Possibilities,
                       c \in {d \in Configs :
                                 /\ d.processed_feeds_cache_size = MaxCap
                                 /\ d.processed_comments_cache_size = MaxCap}}
    /\ space = {"a"}
    /\ now = Epoch
    /\ started = {}
    /\ tasks = NoTasks
    /\ InitRunner
    /\ InitFeed

NextPerm ==
    \/ (BrowseStart(Runner) /\ UNCHANGED envVars)
    \/ (LoadProcessedList(Runner) /\ UNCHANGED envVars)
    \/ (LoadProcessedComments(Runner) /\ UNCHANGED envVars)
    \/ (CheckFeedsBegin(Runner) /\ UNCHANGED envVars)
    \/ (NextFeed(Runner) /\ UNCHANGED envVars)
    \/ (GenerateComment(Runner) /\ UNCHANGED envVars)
    \/ (CommentFeed(Runner) /\ UNCHANGED envVars)
    \/ (LikeFeed(Runner) /\ UNCHANGED envVars)
    \/ (SaveProcessedList(Runner) /\ UNCHANGED envVars)
    \/ (BrowseReturn(Runner) /\ UNCHANGED envVars)
    \/ (FinallySaveList(Runner) /\ UNCHANGED envVars)
    \/ (FinallySaveComments(Runner) /\ UNCHANGED envVars)

SpecPerm == InitPerm /\ [][NextPerm]_vars

(***************************************************************************)
(* SpecQuiet: passes at noon and at 23:30 with the nights silent, under    *)
(* every setting of the two flags.  The installation is fresh, or it has   *)
(* handled "a" and replied to c1 under "s" before and both files hold it.  *)
(***************************************************************************)
Night == RangeText(<< 23 * 60, 7 * 60 >>)

StoredBefore ==
    {[list |-> << >>, comments |-> << >>, disk |-> NoFiles,
      commented |-> {}, liked |-> {}, replied |-> {}],
     [list |-> << [k |-> "a", v |-> << >>] >>,
      comments |-> << [k |-> "s", v |-> << "c1" >>] >>,
      disk |-> [list |-> "whole", comments |-> "whole"],
      commented |-> {"a"}, liked |-> {"a"}, replied |-> {"c1"}]}

InitQuiet ==
    /\ config \in {[c EXCEPT !.silent_hours = Night,
                              !.like_during_silent = fl[1],
                              !.comment_during_silent = fl[2]] :
                       fl \in BOOLEAN \X BOOLEAN,
                       c \in {d \in Configs :
                                 /\ d.processed_feeds_cache_size = MaxCap
                                 /\ d.processed_comments_cache_size = MaxCap}}
    /\ space = {"a", "b", "s"}
    /\ now \in {At(12, 0), At(23, 30)}
    /\ started = {}
    /\ tasks = NoTasks
    /\ InitRunner
    /\ pc = [p \in Procs |-> "idle"]
    /\ processed_list = [p \in Procs |-> << >>]
    /\ processed_comments = [p \in Procs |-> << >>]
    /\ \E st \in StoredBefore :
          /\ file_list = st.list
          /\ file_comments = st.comments
          /\ disk = st.disk
          /\ commented = st.commented
          /\ liked = st.liked
          /\ replied = st.replied
    /\ io_faults = FALSE
    /\ locks = {}
    /\ logged = {}
    /\ feeds_list = [p \in Procs |-> << >>]
    /\ idx = [p \in Procs |-> 0]
    /\ to_reply = [p \in Procs |-> << >>]
    /\ is_silent = [p \in Procs |-> FALSE]
    /\ allow_like = [p \in Procs |-> TRUE]
    /\ allow_comment = [p \in Procs |-> TRUE]
    /\ comment_draw = [p \in Procs |-> NoDraw]
    /\ like_draw = [p \in Procs |-> NoDraw]
    /\ outcome = [p \in Procs |-> NoOutcome]
    /\ calls = [p \in Procs |-> << >>]
    /\ histList = << >>
    /\ histComments = << >>
    /\ last_browse_time = 0

NextQuiet ==
    \/ (BrowseStart(Runner) /\ UNCHANGED envVars)
    \/ (LoadProcessedList(Runner) /\ UNCHANGED envVars)
    \/ (LoadProcessedComments(Runner) /\ UNCHANGED envVars)
    \/ (CheckFeedsBegin(Runner) /\ UNCHANGED envVars)
    \/ (NextFeed(Runner) /\ UNCHANGED envVars)
    \/ (GenerateComment(Runner) /\ UNCHANGED envVars)
    \/ (CommentFeed(Runner) /\ UNCHANGED envVars)
    \/ (LikeFeed(Runner) /\ UNCHANGED envVars)
    \/ (SaveProcessedList(Runner) /\ UNCHANGED envVars)
    \/ (ReplyComment(Runner) /\ UNCHANGED envVars)
    \/ (BrowseReturn(Runner) /\ UNCHANGED envVars)
    \/ (FinallySaveList(Runner) /\ UNCHANGED envVars)
    \/ (FinallySaveComments(Runner) /\ UNCHANGED envVars)

SpecQuiet == InitQuiet /\ [][NextQuiet]_vars

(***************************************************************************)
(* SpecList: passes under a whitelist or a blacklist that is empty, names  *)
(* one other account, or names that account and the bot itself; with and   *)
(* without auto-reply.  The space has two feeds of other people, a feed of *)
(* the bot with comments and one without.                                  *)
(***************************************************************************)
ReadLists ==
    { {},
      {ListEntry(TRUE, "q1")},
      {ListEntry(FALSE, "q1"), ListEntry(FALSE, qq_account)} }

InitList ==
    /\ config \in {[c EXCEPT !.read_list = rl,
                              !.read_list_type = lt,
                              !.enable_auto_reply = ar] :
                       rl \in ReadLists, lt \in {"whitelist", "blacklist"},
                       ar \in BOOLEAN,
                       c \in {d \in Configs :
                                 /\ d.processed_feeds_cache_size = MaxCap
                                 /\ d.processed_comments_cache_size = MaxCap}}
    /\ space = {"a", "b", "s", "u"}
    /\ now = Epoch
    /\ started = {}
    /\ tasks = NoTasks
    /\ InitRunner
    /\ InitFeed

NextList ==
    \/ (BrowseStart(Runner) /\ UNCHANGED envVars)
    \/ (LoadProcessedList(Runner) /\ UNCHANGED envVars)
    \/ (LoadProcessedComments(Runner) /\ UNCHANGED envVars)
    \/ (CheckFeedsBegin(Runner) /\ UNCHANGED envVars)
    \/ (NextFeed(Runner) /\ UNCHANGED envVars)
    \/ (GenerateComment(Runner) /\ UNCHANGED envVars)
    \/ (CommentFeed(Runner) /\ UNCHANGED envVars)
    \/ (LikeFeed(Runner) /\ UNCHANGED envVars)
    \/ (SaveProcessedList(Runner) /\ UNCHANGED envVars)
    \/ (ReplyComment(Runner) /\ UNCHANGED envVars)
    \/ (BrowseReturn(Runner) /\ UNCHANGED envVars)
    \/ (FinallySaveList(Runner) /\ UNCHANGED envVars)
    \/ (FinallySaveComments(Runner) /\ UNCHANGED envVars)

SpecList == InitList /\ [][NextList]_vars

(***************************************************************************)
(* SpecLoop: RoutineRunner._routine_loop with its gate and its two         *)
(* handlers; the browse handler is the pass above.  Time is read at the    *)
(* gate and when a handler records its success; it advances at the sleeps  *)
(* of the loop.  A state of the loop is a point where the task waits for   *)
(* the call named by lpc, or is about to run the synchronous code named    *)
(* by it.                                                                  *)
(***************************************************************************)
MaxMinutes == 6    \* minutes of the loop's life that are explored
MaxAnswer == 2     \* an answer of the oracle has at most MaxAnswer tokens

BackoffSeconds == 300

Activities == {"none", "sleeping", "relaxing"}

\* variant: only a missing activity ends the cycle early
SkipsCycle_NoneOnly(a) == a = "none"

\* `if not activity` and `activity.activity_type == ActivityType.SLEEPING`:
\* the cycle goes straight to its sleep
SkipsCycle(a) == a = "none" \/ a = "sleeping"

\* the tokens an answer is made of: '是', '否', white space, anything else
Yes == "shi"
No == "fou"
Tokens == {Yes, No, Blank, "x"}

Texts == UNION {[1..n -> Tokens] : n \in 0..MaxAnswer}

\* what `await llm_api.generate_with_model(...)` can give: a pair (success,
\* text), where the text may fail to be a string, or an exception
OracleResults ==
    [kind : {"returned"}, ok : BOOLEAN, text : Texts \cup {None}]
       \cup {[kind |-> "raised", ok |-> FALSE, text |-> None]}

\* variant: the negative token is not looked for
ParseDecision_YesOnly(r) ==
    /\ r.kind = "returned"
    /\ r.ok
    /\ r.text # None
    /\ Contains(Strip(r.text), Yes)

\* answer = result[1].strip() if result[0] else ""
\* decision = "是" in answer and "否" not in answer
\* an exception of the call or of strip() is caught: return False
ParseDecision(r) ==
    IF r.kind = "raised" THEN FALSE
    ELSE IF r.ok /\ r.text = None THEN FALSE
    ELSE LET answer == IF r.ok THEN Strip(r.text) ELSE << >>
         IN Contains(answer, Yes) /\ ~Contains(answer, No)

\* variant: the bound is exclusive
CooldownPassed_Strict(t, last, cooldown) == t - last > cooldown

\* not (time.time() - last < cooldown)
CooldownPassed(t, last, cooldown) == ~(t - last < cooldown)

Cooldown(action) ==
    IF action = "post" THEN config.post_cooldown_minutes * 60
    ELSE config.browse_cooldown_minutes * 60

\* variant: one time stamp, that of the later of the two actions
LastSuccess_Latest(action) ==
    IF last_post_time > last_browse_time THEN last_post_time ELSE last_browse_time

\* self.last_post_time or self.last_browse_time, by the action asked about
LastSuccess(action) ==
    IF action = "post" THEN last_post_time ELSE last_browse_time

\* variant: the post handler is started and not waited for
AfterGate_NoWait(action, decision) ==
    IF action = "post" THEN "decide_browse"
    ELSE IF decision THEN "renew" ELSE "diary"

\* where the loop goes once _llm_decide has returned: into the handler when
\* the decision is True, on to the next statement otherwise
AfterGate(action, decision) ==
    IF action = "post"
    THEN IF decision THEN "post" ELSE "decide_browse"
    ELSE IF decision THEN "renew" ELSE "diary"

\* variant: nothing catches the exception and the task of the loop ends
LoopExcept_Propagates == "done"

\* except Exception as e: the error is logged, then asyncio.sleep(300)
LoopExcept == "backoff"

\* variant: the oracle is called first and the cooldown looked at afterwards
LlmDecide_AskFirst(action) ==
    /\ gate' = Gate(action, CooldownPassed(now, LastSuccess(action), Cooldown(action)),
                    TRUE, FALSE, FALSE)
    /\ lpc' = "ask_" \o action

\* _llm_decide(activity, action) up to its await: the cooldown check, then
\* the model lookup (models[text_model] may raise, or give nothing), then
\* the call of the oracle
LlmDecide(action) ==
    IF ~CooldownPassed(now, LastSuccess(action), Cooldown(action))
    THEN /\ gate' = Gate(action, FALSE, FALSE, FALSE, FALSE)
         /\ lpc' = AfterGate(action, FALSE)
    ELSE \/ /\ gate' = Gate(action, TRUE, FALSE, FALSE, FALSE)
            /\ lpc' = AfterGate(action, FALSE)
         \/ /\ gate' = Gate(action, TRUE, FALSE, FALSE, TRUE)
            /\ lpc' = LoopExcept
         \/ /\ gate' = Gate(action, TRUE, TRUE, FALSE, FALSE)
            /\ lpc' = "ask_" \o action

\* _llm_decide returns decision d to the loop
Decided(action, d) ==
    /\ gate' = Gate(action, TRUE, TRUE, d, FALSE)
    /\ lpc' = AfterGate(action, d)

\* _llm_decide once the oracle has given r
Answered(action, r) == Decided(action, ParseDecision(r))

\* the decisions that the results of the oracle lead to
OracleDecisions == {ParseDecision(r) : r \in OracleResults}

\* RoutineRunner.start(): the task of the loop is created
LoopStart ==
    /\ lpc = "off"
    /\ ~is_running
    /\ is_running' = TRUE
    /\ lpc' = "created"
    /\ UNCHANGED <<activity, last_post_time, gate, post_result, result, diary,
                   last_diary_date>>
    /\ UNCHANGED <<config, space, now, started, tasks, feedVars>>

\* a sleep of the loop: time goes on by d seconds
Sleep(d) ==
    /\ now + d <= Epoch + MaxMinutes * 60
    /\ now' = now + d

\* while self.is_running:
\*     activity = await self.schedule_provider.get_current_activity()
\* the provider catches its own errors and then gives no activity
LoopFetchActivity ==
    /\ lpc \in {"created", "top"}
    /\ gate' = NoGate
    /\ post_result' = "none"
    /\ IF ~is_running
       THEN lpc' = "done" /\ UNCHANGED activity
       ELSE \E a \in Activities :
               /\ activity' = a
               /\ lpc' = IF SkipsCycle(a) THEN "sleep" ELSE "decide_post"
    /\ UNCHANGED <<last_post_time, runVars>>
    /\ UNCHANGED <<config, space, now, started, tasks, feedVars>>

\* if await self._llm_decide(activity, "post"), up to the call of the oracle
LoopDecidePost ==
    /\ lpc = "decide_post"
    /\ LlmDecide("post")
    /\ UNCHANGED <<activity, last_post_time, post_result, runVars>>
    /\ UNCHANGED <<config, space, now, started, tasks, feedVars>>

\* the oracle answers the question about "post"
LoopOraclePost ==
    /\ lpc = "ask_post"
    /\ result = NoResult
    /\ \E d \in OracleDecisions : Decided("post", d)
    /\ UNCHANGED <<activity, last_post_time, post_result, runVars>>
    /\ UNCHANGED <<config, space, now, started, tasks, feedVars>>

PostResults == {"no_model", "cookies", "no_api", "bad_result", "generate",
                "publish_failed", "exception", "published"}

\* variant: the time is recorded however the handler ends
PostStamp_Always(res, t, last) == t

\* if success: self.last_post_time = time.time()
PostStamp(res, t, last) == IF res = "published" THEN t ELSE last

\* variant: an exception of the handler goes to the except clause of the loop
LoopPostFeed_Unguarded ==
    /\ lpc = "post"
    /\ \E r \in PostResults :
          /\ post_result' = r
          /\ last_post_time' = PostStamp(r, now, last_post_time)
          /\ lpc' = IF r = "exception" THEN LoopExcept ELSE "decide_browse"
    /\ UNCHANGED <<activity, gate, runVars>>
    /\ UNCHANGED <<config, space, now, started, tasks, feedVars>>

\* await self._post_feed(activity), with the try/except of the loop around it
LoopPostFeed ==
    /\ lpc = "post"
    /\ \E r \in PostResults :
          /\ post_result' = r
          /\ last_post_time' = PostStamp(r, now, last_post_time)
    /\ lpc' = "decide_browse"
    /\ UNCHANGED <<activity, gate, runVars>>
    /\ UNCHANGED <<config, space, now, started, tasks, feedVars>>

\* if await self._llm_decide(activity, "browse"), up to the call of the oracle
LoopDecideBrowse ==
    /\ lpc = "decide_browse"
    /\ LlmDecide("browse")
    /\ UNCHANGED <<activity, last_post_time, post_result, runVars>>
    /\ UNCHANGED <<config, space, now, started, tasks, feedVars>>

\* the oracle answers the question about "browse"
LoopOracleBrowse ==
    /\ lpc = "ask_browse"
    /\ result = NoResult
    /\ \E d \in OracleDecisions : Decided("browse", d)
    /\ UNCHANGED <<activity, last_post_time, post_result, runVars>>
    /\ UNCHANGED <<config, space, now, started, tasks, feedVars>>

\* await self._browse_feeds(): the handler is entered and renews the cookies
LoopBrowseStart ==
    /\ lpc = "renew"
    /\ BrowseStart(Runner)
    /\ lpc' = "browse"
    /\ UNCHANGED <<activity, last_post_time, gate, post_result, runVars>>
    /\ UNCHANGED <<config, space, now, started, tasks>>

\* the browse handler runs: step A of it
LoopBrowse(A) ==
    /\ lpc = "browse"
    /\ A
    /\ UNCHANGED envVars

\* datetime.datetime.now().strftime("%H:%M"), as (hour, minute)
FormatHM(t) == << (t \div 3600) % 24, (t \div 60) % 60 >>

\* datetime.datetime.now().date(), as the number of the day
Date(t) == t \div 86400

\* asyncio.create_task(self._generate_diary()): one more task, made today
DiaryTask(t) == [date |-> Date(t), state |-> "running"]

\* variant: the date is not recorded when the task is created
CheckDiary_NoRecord ==
    IF /\ config.diary_enabled
       /\ FormatHM(now) = config.diary_schedule_time
       /\ last_diary_date # Date(now)
    THEN /\ diary' = Append(diary, DiaryTask(now))
         /\ UNCHANGED last_diary_date
    ELSE UNCHANGED <<last_diary_date, diary>>

\* _check_diary(): the three early returns, then the date is recorded and
\* the task for _generate_diary is created
CheckDiary ==
    IF /\ config.diary_enabled
       /\ FormatHM(now) = config.diary_schedule_time
       /\ last_diary_date # Date(now)
    THEN /\ last_diary_date' = Date(now)
         /\ diary' = Append(diary, DiaryTask(now))
    ELSE UNCHANGED <<last_diary_date, diary>>

\* the browse handler has ended (an exception it raised is logged) or was
\* not entered; then self._check_diary(), which may raise
LoopAfterBrowse ==
    /\ lpc \in {"browse", "diary"}
    /\ pc[Runner] = "idle"
    /\ \/ lpc' = "sleep" /\ CheckDiary
       \/ lpc' = LoopExcept /\ UNCHANGED <<last_diary_date, diary>>
    /\ UNCHANGED <<activity, last_post_time, gate, post_result, result, is_running>>
    /\ UNCHANGED <<config, space, now, started, tasks, feedVars>>

\* await asyncio.sleep(check_interval * 60)
LoopSleep ==
    /\ lpc = "sleep"
    /\ Sleep(config.check_interval_minutes * 60)
    /\ lpc' = "top"
    /\ UNCHANGED <<activity, last_post_time, gate, post_result, runVars>>
    /\ UNCHANGED <<config, space, started, tasks, feedVars>>

\* except Exception: await asyncio.sleep(300)
LoopBackoff ==
    /\ lpc = "backoff"
    /\ Sleep(BackoffSeconds)
    /\ lpc' = "top"
    /\ UNCHANGED <<activity, last_post_time, gate, post_result, runVars>>
    /\ UNCHANGED <<config, space, started, tasks, feedVars>>

InitLoop ==
    /\ config \in {c \in Configs : /\ c.processed_feeds_cache_size = MaxCap
                                   /\ c.processed_comments_cache_size = MaxCap}
    /\ space \in {{"a"}, {"s"}}
    /\ now = Epoch
    /\ started = {}
    /\ tasks = NoTasks
    /\ InitRunner
    /\ InitFeed

NextLoop ==
    \/ LoopStart
    \/ LoopFetchActivity
    \/ LoopDecidePost
    \/ LoopOraclePost
    \/ LoopPostFeed
    \/ LoopDecideBrowse
    \/ LoopOracleBrowse
    \/ LoopBrowseStart
    \/ LoopBrowse(LoadProcessedList(Runner))
    \/ LoopBrowse(LoadProcessedComments(Runner))
    \/ LoopBrowse(CheckFeedsBegin(Runner))
    \/ LoopBrowse(NextFeed(Runner))
    \/ LoopBrowse(GenerateComment(Runner))
    \/ LoopBrowse(CommentFeed(Runner))
    \/ LoopBrowse(LikeFeed(Runner))
    \/ LoopBrowse(SaveProcessedList(Runner))
    \/ LoopBrowse(ReplyComment(Runner))
    \/ LoopBrowse(BrowseReturn(Runner))
    \/ LoopBrowse(FinallySaveList(Runner))
    \/ LoopBrowse(FinallySaveComments(Runner))
    \/ LoopAfterBrowse
    \/ LoopSleep
    \/ LoopBackoff

SpecLoop == InitLoop /\ [][NextLoop]_vars

(***************************************************************************)
(* SpecStop: the loop, and RoutineRunner.stop() called from another task   *)
(* while the task of the loop is suspended.  The event loop runs a task    *)
(* that can run: the steps of the loop task are weakly fair.               *)
(***************************************************************************)

\* the calls at which a running pass is suspended: the two loads and the
\* saves do not yield when nobody else holds their lock
AwaitPoints == {"check", "generate", "comment", "like", "reply"}

\* the task of the loop is suspended, so that another task can run
Suspended ==
    \/ lpc \in {"created", "ask_post", "ask_browse", "post", "renew", "sleep",
                "backoff"}
    \/ lpc = "browse" /\ pc[Runner] \in AwaitPoints

\* variant: stop() only clears the flag, the task is not cancelled
Cancelled_Ignored(l) == l

\* self.task.cancel(): CancelledError is raised at the await where the task
\* waits.  Inside the pass it first runs the finally clause of
\* _browse_feeds; everywhere else the loop breaks, or the task ends with it
Cancelled(l) == IF l = "browse" THEN "cancelled" ELSE "done"

\* what the request that was in flight when the task was cancelled may
\* still have done at the remote side
CancelledInFlight ==
    \/ UNCHANGED <<commented, liked, replied>>
    \/ /\ pc[Runner] = "comment"
       /\ commented' = commented \cup {CurFeed(Runner)}
       /\ UNCHANGED <<liked, replied>>
    \/ /\ pc[Runner] = "like"
       /\ liked' = liked \cup {CurFeed(Runner)}
       /\ UNCHANGED <<commented, replied>>
    \/ /\ pc[Runner] = "reply"
       /\ replied' = replied \cup {Head(to_reply[Runner]).comment_tid}
       /\ UNCHANGED <<commented, liked>>

\* RoutineRunner.stop() up to `await self.task`
Stop ==
    /\ is_running
    /\ Suspended
    /\ is_running' = FALSE
    /\ lpc' = Cancelled(lpc)
    /\ IF lpc' = "cancelled"
       THEN /\ pc' = [pc EXCEPT ![Runner] = "finally_list"]
            /\ outcome' = [outcome EXCEPT ![Runner] =
                               [status |-> "cancelled", msg |-> ""]]
            /\ CancelledInFlight
            /\ UNCHANGED <<memVars, fileVars, loopVars, calls, histVars,
                           last_browse_time>>
       ELSE UNCHANGED feedVars
    /\ UNCHANGED <<activity, last_post_time, gate, post_result, result, diary,
                   last_diary_date>>
    /\ UNCHANGED <<config, space, now, started, tasks>>

\* the finally clause of _browse_feeds while CancelledError goes through it
LoopUnwind(A) ==
    /\ lpc = "cancelled"
    /\ A
    /\ UNCHANGED envVars

\* except asyncio.CancelledError: break; the task ends and stop() returns
LoopCancelled ==
    /\ lpc = "cancelled"
    /\ pc[Runner] = "idle"
    /\ lpc' = "done"
    /\ UNCHANGED <<activity, last_post_time, gate, post_result, runVars>>
    /\ UNCHANGED <<config, space, now, started, tasks, feedVars>>

\* the steps of the task of the loop
TaskNext ==
    \/ LoopFetchActivity
    \/ LoopDecidePost
    \/ LoopOraclePost
    \/ LoopPostFeed
    \/ LoopDecideBrowse
    \/ LoopOracleBrowse
    \/ LoopBrowseStart
    \/ LoopBrowse(LoadProcessedList(Runner))
    \/ LoopBrowse(LoadProcessedComments(Runner))
    \/ LoopBrowse(CheckFeedsBegin(Runner))
    \/ LoopBrowse(NextFeed(Runner))
    \/ LoopBrowse(GenerateComment(Runner))
    \/ LoopBrowse(CommentFeed(Runner))
    \/ LoopBrowse(LikeFeed(Runner))
    \/ LoopBrowse(SaveProcessedList(Runner))
    \/ LoopBrowse(ReplyComment(Runner))
    \/ LoopBrowse(BrowseReturn(Runner))
    \/ LoopBrowse(FinallySaveList(Runner))
    \/ LoopBrowse(FinallySaveComments(Runner))
    \/ LoopAfterBrowse
    \/ LoopSleep
    \/ LoopBackoff
    \/ LoopUnwind(FinallySaveList(Runner))
    \/ LoopUnwind(FinallySaveComments(Runner))
    \/ LoopCancelled

NextStop ==
    \/ LoopStart
    \/ Stop
    \/ LoopFetchActivity
    \/ LoopDecidePost
    \/ LoopOraclePost
    \/ LoopPostFeed
    \/ LoopDecideBrowse
    \/ LoopOracleBrowse
    \/ LoopBrowseStart
    \/ LoopBrowse(LoadProcessedList(Runner))
    \/ LoopBrowse(LoadProcessedComments(Runner))
    \/ LoopBrowse(CheckFeedsBegin(Runner))
    \/ LoopBrowse(NextFeed(Runner))
    \/ LoopBrowse(GenerateComment(Runner))
    \/ LoopBrowse(CommentFeed(Runner))
    \/ LoopBrowse(LikeFeed(Runner))
    \/ LoopBrowse(SaveProcessedList(Runner))
    \/ LoopBrowse(ReplyComment(Runner))
    \/ LoopBrowse(BrowseReturn(Runner))
    \/ LoopBrowse(FinallySaveList(Runner))
    \/ LoopBrowse(FinallySaveComments(Runner))
    \/ LoopAfterBrowse
    \/ LoopSleep
    \/ LoopBackoff
    \/ LoopUnwind(FinallySaveList(Runner))
    \/ LoopUnwind(FinallySaveComments(Runner))
    \/ LoopCancelled

\* the loop wakes every three minutes; both stores at their largest
InitStop ==
    /\ config \in {[c EXCEPT !.check_interval_minutes = 3] :
                       c \in {d \in Configs :
                                 /\ d.processed_feeds_cache_size = MaxCap
                                 /\ d.processed_comments_cache_size = MaxCap}}
    /\ space \in {{"a"}, {"s"}}
    /\ now = Epoch
    /\ started = {}
    /\ tasks = NoTasks
    /\ InitRunner
    /\ InitFeed

SpecStop == InitStop /\ [][NextStop]_vars /\ WF_vars(TaskNext)

(***************************************************************************)
(* SpecDiary: the loop with the daily check switched on.  Either the loop  *)
(* wakes every three minutes and the diary is due at 00:19, the minute of  *)
(* the second cycle; or the check interval is 0, so that the loop does not *)
(* wait between its cycles, and the diary is due at 00:16, the minute in   *)
(* which the loop starts.                                                  *)
(***************************************************************************)
InitDiary ==
    /\ config \in UNION {
          {[c EXCEPT !.check_interval_minutes = 3,
                     !.diary_enabled = TRUE,
                     !.diary_schedule_time = <<0, 19>>],
           [c EXCEPT !.check_interval_minutes = 0,
                     !.diary_enabled = TRUE,
                     !.diary_schedule_time = <<0, 16>>]} :
              c \in {d \in Configs :
                        /\ d.processed_feeds_cache_size = MaxCap
                        /\ d.processed_comments_cache_size = MaxCap}}
    /\ space \in {{"a"}, {"s"}}
    /\ now = Epoch
    /\ started = {}
    /\ tasks = NoTasks
    /\ InitRunner
    /\ InitFeed

\* a task made for _generate_diary comes to its end, in success or in an
\* error that it logs
DiaryDone ==
    /\ \E i \in DOMAIN diary : \E end \in {"published", "failed"} :
          /\ diary[i].state = "running"
          /\ diary' = [diary EXCEPT ![i].state = end]
    /\ UNCHANGED <<lpc, activity, last_post_time, gate, post_result, result,
                   is_running, last_diary_date>>
    /\ UNCHANGED <<config, space, now, started, tasks, feedVars>>

NextDiary ==
    \/ LoopStart
    \/ LoopFetchActivity
    \/ LoopDecidePost
    \/ LoopOraclePost
    \/ LoopPostFeed
    \/ LoopDecideBrowse
    \/ LoopOracleBrowse
    \/ LoopBrowseStart
    \/ LoopBrowse(LoadProcessedList(Runner))
    \/ LoopBrowse(LoadProcessedComments(Runner))
    \/ LoopBrowse(CheckFeedsBegin(Runner))
    \/ LoopBrowse(NextFeed(Runner))
    \/ LoopBrowse(GenerateComment(Runner))
    \/ LoopBrowse(CommentFeed(Runner))
    \/ LoopBrowse(LikeFeed(Runner))
    \/ LoopBrowse(SaveProcessedList(Runner))
    \/ LoopBrowse(ReplyComment(Runner))
    \/ LoopBrowse(BrowseReturn(Runner))
    \/ LoopBrowse(FinallySaveList(Runner))
    \/ LoopBrowse(FinallySaveComments(Runner))
    \/ LoopAfterBrowse
    \/ LoopSleep
    \/ LoopBackoff
    \/ DiaryDone

SpecDiary == InitDiary /\ [][NextDiary]_vars

(***************************************************************************)
(* SpecIO: the loop on a file system that can fail: open(), the read and   *)
(* the write of either file may raise, and the process may die inside a    *)
(* save and be started again.  The loop wakes every three minutes; the    *)
(* last post is less than its cooldown away, so that only browse is        *)
(* admitted.                                                               *)
(***************************************************************************)
InitIO ==
    /\ config \in {[c EXCEPT !.check_interval_minutes = 3,
                              !.post_cooldown_minutes = 60] :
                       c \in {d \in Configs :
                                 /\ d.processed_feeds_cache_size = MaxCap
                                 /\ d.processed_comments_cache_size = MaxCap
                                 /\ d.enable_auto_reply}}
    /\ space \in {{"a"}, {"s"}}
    /\ now = Epoch
    /\ started = {}
    /\ tasks = NoTasks
    /\ InitRunner
    /\ pc = [p \in Procs |-> "idle"]
    /\ processed_list = [p \in Procs |-> << >>]
    /\ processed_comments = [p \in Procs |-> << >>]
    /\ file_list = << >>
    /\ file_comments = << >>
    /\ disk = NoFiles
    /\ io_faults = TRUE
    /\ locks = {}
    /\ logged = {}
    /\ feeds_list = [p \in Procs |-> << >>]
    /\ idx = [p \in Procs |-> 0]
    /\ to_reply = [p \in Procs |-> << >>]
    /\ is_silent = [p \in Procs |-> FALSE]
    /\ allow_like = [p \in Procs |-> TRUE]
    /\ allow_comment = [p \in Procs |-> TRUE]
    /\ comment_draw = [p \in Procs |-> NoDraw]
    /\ like_draw = [p \in Procs |-> NoDraw]
    /\ outcome = [p \in Procs |-> NoOutcome]
    /\ calls = [p \in Procs |-> << >>]
    /\ commented = {}
    /\ liked = {}
    /\ replied = {}
    /\ histList = << >>
    /\ histComments = << >>
    /\ last_browse_time = 0

\* the process dies while a save of the pass has opened its file and not
\* yet closed it: the file is left with the beginning of the document;
\* all that is in memory is lost, and the plugin is loaded again
DiesInSave ==
    /\ lpc = "browse"
    /\ \/ /\ pc[Runner] \in {"save", "finally_list"}
          /\ \E b \in Beginnings(json_dump(processed_list[Runner])) :
                file_list' = b
          /\ disk' = [disk EXCEPT !.list = "partial"]
          /\ UNCHANGED file_comments
       \/ /\ pc[Runner] = "finally_comments"
          /\ \E b \in Beginnings(json_dump(processed_comments[Runner])) :
                file_comments' = b
          /\ disk' = [disk EXCEPT !.comments = "partial"]
          /\ UNCHANGED file_list
    /\ pc' = [p \in Procs |-> "idle"]
    /\ processed_list' = [p \in Procs |-> << >>]
    /\ processed_comments' = [p \in Procs |-> << >>]
    /\ feeds_list' = [p \in Procs |-> << >>]
    /\ idx' = [p \in Procs |-> 0]
    /\ to_reply' = [p \in Procs |-> << >>]
    /\ is_silent' = [p \in Procs |-> FALSE]
    /\ allow_like' = [p \in Procs |-> TRUE]
    /\ allow_comment' = [p \in Procs |-> TRUE]
    /\ comment_draw' = [p \in Procs |-> NoDraw]
    /\ like_draw' = [p \in Procs |-> NoDraw]
    /\ calls' = [p \in Procs |-> << >>]
    /\ outcome' = [p \in Procs |-> NoOutcome]
    /\ last_browse_time' = 0
    /\ locks' = {}
    /\ lpc' = "off"
    /\ activity' = "none"
    /\ last_post_time' = 0
    /\ gate' = NoGate
    /\ post_result' = "none"
    /\ is_running' = FALSE
    /\ last_diary_date' = NoDate
    /\ UNCHANGED <<result, diary>>
    /\ UNCHANGED <<config, space, now, started, tasks, io_faults, logged, commented,
                   liked, replied, histVars>>

NextIO ==
    \/ LoopStart
    \/ LoopFetchActivity
    \/ LoopDecidePost
    \/ LoopDecideBrowse
    \/ LoopOracleBrowse
    \/ LoopBrowseStart
    \/ LoopBrowse(LoadProcessedList(Runner))
    \/ LoopBrowse(LoadProcessedComments(Runner))
    \/ LoopBrowse(CheckFeedsBegin(Runner))
    \/ LoopBrowse(NextFeed(Runner))
    \/ LoopBrowse(GenerateComment(Runner))
    \/ LoopBrowse(CommentFeed(Runner))
    \/ LoopBrowse(LikeFeed(Runner))
    \/ LoopBrowse(SaveProcessedList(Runner))
    \/ LoopBrowse(ReplyComment(Runner))
    \/ LoopBrowse(BrowseReturn(Runner))
    \/ LoopBrowse(FinallySaveList(Runner))
    \/ LoopBrowse(FinallySaveComments(Runner))
    \/ LoopAfterBrowse
    \/ LoopSleep
    \/ LoopBackoff
    \/ DiesInSave

SpecIO == InitIO /\ [][NextIO]_vars

(***************************************************************************)
(* SpecExit: the ways out of a pass.  The loop wakes every three minutes,  *)
(* only browse is admitted, stop() may cancel the task, and the space      *)
(* holds a feed of somebody else and the two feeds of the bot that have    *)
(* comments, so that with room for one record a reply under one feed       *)
(* evicts the record of the other.                                         *)
(***************************************************************************)
InitExit ==
    /\ config \in {[c EXCEPT !.check_interval_minutes = 3,
                              !.post_cooldown_minutes = 60] :
                       c \in {d \in Configs :
                                 d.processed_feeds_cache_size = MaxCap}}
    /\ space = {"a", "s", "t"}
    /\ now = Epoch
    /\ started = {}
    /\ tasks = NoTasks
    /\ InitRunner
    /\ InitFeed

NextExit ==
    \/ LoopStart
    \/ Stop
    \/ LoopFetchActivity
    \/ LoopDecidePost
    \/ LoopDecideBrowse
    \/ LoopOracleBrowse
    \/ LoopBrowseStart
    \/ LoopBrowse(LoadProcessedList(Runner))
    \/ LoopBrowse(LoadProcessedComments(Runner))
    \/ LoopBrowse(CheckFeedsBegin(Runner))
    \/ LoopBrowse(NextFeed(Runner))
    \/ LoopBrowse(GenerateComment(Runner))
    \/ LoopBrowse(CommentFeed(Runner))
    \/ LoopBrowse(LikeFeed(Runner))
    \/ LoopBrowse(SaveProcessedList(Runner))
    \/ LoopBrowse(ReplyComment(Runner))
    \/ LoopBrowse(BrowseReturn(Runner))
    \/ LoopBrowse(FinallySaveList(Runner))
    \/ LoopBrowse(FinallySaveComments(Runner))
    \/ LoopAfterBrowse
    \/ LoopSleep
    \/ LoopBackoff
    \/ LoopUnwind(FinallySaveList(Runner))
    \/ LoopUnwind(FinallySaveComments(Runner))
    \/ LoopCancelled

SpecExit == InitExit /\ [][NextExit]_vars

(***************************************************************************)
(* SpecStart: start() and stop() are called in any order, MaxCalls times   *)
(* in all, while the loop runs.  The loop wakes every three minutes and    *)
(* only browse is admitted.  A task that was cancelled inside a pass still *)
(* has the finally clause of _browse_feeds to run when start() makes the   *)
(* next task; its pass is then kept as invocation Manual.                  *)
(***************************************************************************)
MaxCalls == 4

\* the task at l has neither been cancelled nor ended
Live(l) == l \notin {"off", "cancelled", "done"}

\* a caller of start() or stop() runs: no loop task is in the middle of a
\* step
CallerRuns ==
    /\ \/ Suspended
       \/ lpc \in {"off", "done"}
       \/ lpc = "cancelled" /\ pc[Runner] \in {"finally_list", "idle"}
    /\ pc[Manual] \in {"idle", "finally_list"}

\* one more call, of start() or of stop()
Called(name) == [tasks EXCEPT !.calls = @ + 1, !.last = name]

\* self.task = ...: the pass of the task that self.task pointed to, when
\* that task has not ended yet
Handover(f, fresh) ==
    IF lpc = "cancelled"
    THEN [p \in Procs |-> IF p = Manual THEN f[Runner] ELSE fresh]
    ELSE f

\* variant: start() without "if self.is_running: return"
start_Unguarded(db_path) ==
    /\ CallerRuns
    /\ tasks.calls < MaxCalls
    /\ IF ~db_path
       THEN /\ tasks' = Called("start")
            /\ UNCHANGED <<is_running, lpc, feedVars>>
       ELSE /\ lpc = "cancelled" => pc[Manual] = "idle"
            /\ tasks' = [Called("start") EXCEPT
                             !.orphans = @ + IF Live(lpc) THEN 1 ELSE 0]
            /\ is_running' = TRUE
            /\ lpc' = "created"
            /\ pc' = Handover(pc, "idle")
            /\ processed_list' = Handover(processed_list, << >>)
            /\ processed_comments' = Handover(processed_comments, << >>)
            /\ feeds_list' = Handover(feeds_list, << >>)
            /\ idx' = Handover(idx, 0)
            /\ to_reply' = Handover(to_reply, << >>)
            /\ is_silent' = Handover(is_silent, FALSE)
            /\ allow_like' = Handover(allow_like, TRUE)
            /\ allow_comment' = Handover(allow_comment, TRUE)
            /\ comment_draw' = Handover(comment_draw, NoDraw)
            /\ like_draw' = Handover(like_draw, NoDraw)
            /\ outcome' = Handover(outcome, NoOutcome)
            /\ calls' = Handover(calls, << >>)
            /\ UNCHANGED <<fileVars, commented, liked, replied, histVars,
                           last_browse_time>>
    /\ UNCHANGED <<activity, last_post_time, gate, post_result, result, diary,
                   last_diary_date>>
    /\ UNCHANGED <<config, space, now, started>>

\* RoutineRunner.start(): nothing when the loop is running or the planning
\* data base is not found; else the flag is set and self.task is a new task
\* of _routine_loop.  The model keeps the pass of one cancelled task.
start(db_path) ==
    /\ CallerRuns
    /\ tasks.calls < MaxCalls
    /\ IF is_running \/ ~db_path
       THEN /\ tasks' = Called("start")
            /\ UNCHANGED <<is_running, lpc, feedVars>>
       ELSE /\ lpc = "cancelled" => pc[Manual] = "idle"
            /\ tasks' = [Called("start") EXCEPT
                             !.orphans = @ + IF Live(lpc) THEN 1 ELSE 0]
            /\ is_running' = TRUE
            /\ lpc' = "created"
            /\ pc' = Handover(pc, "idle")
            /\ processed_list' = Handover(processed_list, << >>)
            /\ processed_comments' = Handover(processed_comments, << >>)
            /\ feeds_list' = Handover(feeds_list, << >>)
            /\ idx' = Handover(idx, 0)
            /\ to_reply' = Handover(to_reply, << >>)
            /\ is_silent' = Handover(is_silent, FALSE)
            /\ allow_like' = Handover(allow_like, TRUE)
            /\ allow_comment' = Handover(allow_comment, TRUE)
            /\ comment_draw' = Handover(comment_draw, NoDraw)
            /\ like_draw' = Handover(like_draw, NoDraw)
            /\ outcome' = Handover(outcome, NoOutcome)
            /\ calls' = Handover(calls, << >>)
            /\ UNCHANGED <<fileVars, commented, liked, replied, histVars,
                           last_browse_time>>
    /\ UNCHANGED <<activity, last_post_time, gate, post_result, result, diary,
                   last_diary_date>>
    /\ UNCHANGED <<config, space, now, started>>

\* RoutineRunner.stop() up to `await self.task`: nothing when the loop is
\* not running; else the flag is cleared and self.task is cancelled
stop ==
    /\ CallerRuns
    /\ tasks.calls < MaxCalls
    /\ tasks' = Called("stop")
    /\ IF ~is_running
       THEN UNCHANGED <<is_running, lpc, feedVars>>
       ELSE /\ is_running' = FALSE
            /\ lpc' = Cancelled(lpc)
            /\ IF lpc' = "cancelled"
               THEN /\ pc' = [pc EXCEPT ![Runner] = "finally_list"]
                    /\ outcome' = [outcome EXCEPT ![Runner] =
                                       [status |-> "cancelled", msg |-> ""]]
                    /\ CancelledInFlight
                    /\ UNCHANGED <<memVars, fileVars, loopVars, calls,
                                   histVars, last_browse_time>>
               ELSE UNCHANGED feedVars
    /\ UNCHANGED <<activity, last_post_time, gate, post_result, result, diary,
                   last_diary_date>>
    /\ UNCHANGED <<config, space, now, started>>

\* the finally clause of _browse_feeds in the task cancelled before the
\* last start(); after it the task ends
PreviousUnwind(A) ==
    /\ pc[Manual] # "idle"
    /\ A
    /\ UNCHANGED envVars

InitStart ==
    /\ config \in {[c EXCEPT !.check_interval_minutes = 3,
                              !.post_cooldown_minutes = 60] :
                       c \in {d \in Configs :
                                 /\ d.processed_feeds_cache_size = MaxCap
                                 /\ d.processed_comments_cache_size = MaxCap}}
    /\ space \in {{"a"}, {"s"}}
    /\ now = Epoch
    /\ started = {}
    /\ tasks = NoTasks
    /\ InitRunner
    /\ InitFeed

NextStart ==
    \/ \E db_path \in BOOLEAN : start(db_path)
    \/ stop
    \/ LoopFetchActivity
    \/ LoopDecidePost
    \/ LoopDecideBrowse
    \/ LoopOracleBrowse
    \/ LoopBrowseStart
    \/ LoopBrowse(LoadProcessedList(Runner))
    \/ LoopBrowse(LoadProcessedComments(Runner))
    \/ LoopBrowse(CheckFeedsBegin(Runner))
    \/ LoopBrowse(NextFeed(Runner))
    \/ LoopBrowse(GenerateComment(Runner))
    \/ LoopBrowse(CommentFeed(Runner))
    \/ LoopBrowse(LikeFeed(Runner))
    \/ LoopBrowse(SaveProcessedList(Runner))
    \/ LoopBrowse(ReplyComment(Runner))
    \/ LoopBrowse(BrowseReturn(Runner))
    \/ LoopBrowse(FinallySaveList(Runner))
    \/ LoopBrowse(FinallySaveComments(Runner))
    \/ LoopAfterBrowse
    \/ LoopSleep
    \/ LoopBackoff
    \/ LoopUnwind(FinallySaveList(Runner))
    \/ LoopUnwind(FinallySaveComments(Runner))
    \/ LoopCancelled
    \/ PreviousUnwind(FinallySaveList(Manual))
    \/ PreviousUnwind(FinallySaveComments(Manual))

SpecStart == InitStart /\ [][NextStart]_vars

(***************************************************************************)
(* SpecGate: the second half of _llm_decide on every result the oracle     *)
(* can give.  The loop is in its first cycle and waits for the oracle;     *)
(* the result is kept in `result` when it arrives, and then decided on.    *)
(***************************************************************************)
InitGate ==
    /\ config \in Configs
    /\ space \in {{"a"}}
    /\ now = Epoch
    /\ started = {}
    /\ tasks = NoTasks
    /\ lpc \in {"ask_post", "ask_browse"}
    /\ activity = "relaxing"
    /\ last_post_time = 0
    /\ gate = Gate(IF lpc = "ask_post" THEN "post" ELSE "browse",
                   TRUE, TRUE, FALSE, FALSE)
    /\ post_result = "none"
    /\ result = NoResult
    /\ is_running = TRUE
    /\ diary = << >>
    /\ last_diary_date = NoDate
    /\ InitFeed

\* result = await llm_api.generate_with_model(...)
OracleReturn(action) ==
    /\ lpc = "ask_" \o action
    /\ result = NoResult
    /\ result' \in OracleResults
    /\ UNCHANGED <<lpc, activity, last_post_time, gate, post_result,
                   is_running, diary, last_diary_date>>
    /\ UNCHANGED <<config, space, now, started, tasks, feedVars>>

\* lines 399-405 on that result
OracleParse(action) ==
    /\ lpc = "ask_" \o action
    /\ result # NoResult
    /\ Answered(action, result)
    /\ UNCHANGED <<activity, last_post_time, post_result, runVars>>
    /\ UNCHANGED <<config, space, now, started, tasks, feedVars>>

NextGate ==
    \/ OracleReturn("post")
    \/ OracleReturn("browse")
    \/ OracleParse("post")
    \/ OracleParse("browse")

SpecGate == InitGate /\ [][NextGate]_vars

(***************************************************************************)
(* Properties of the reconciliation pass.                                  *)
(***************************************************************************)
feeds_cap == config.processed_feeds_cache_size
comments_cap == config.processed_comments_cache_size

\* invocation p has reached, in its feed loop, a feed of somebody else whose
\* id is a key of its handled-items dict
HandledReached(p) ==
    /\ pc[p] = "feed"
    /\ idx[p] <= Len(feeds_list[p])
    /\ target_qq(CurFeed(p)) # qq_account
    /\ CurFeed(p) \in Keys(processed_list[p])

\* C1: a feed of somebody else whose id is already in the handled-items store
\* when the loop reaches it gets no comment call and no like call, and the
\* store (in memory and on disk) stays as it is: the loop moves on to the
\* next feed.  So comment and like are only ever under way for a feed that is
\* not in the store.
C1_HandledIsSkipped ==
    /\ [](\A p \in Procs :
            pc[p] \in {"generate", "comment", "like"}
               => CurFeed(p) \notin Keys(processed_list[p]))
    /\ [][\A p \in Procs :
            HandledReached(p) =>
               /\ calls' = calls
               /\ commented' = commented
               /\ liked' = liked
               /\ processed_list' = processed_list
               /\ file_list' = file_list
               /\ pc'[p] = "feed"
               /\ idx'[p] = idx[p] + 1]_vars

\* "a" was commented on and recorded by an earlier pass (it is the only key
\* ever created), and this pass has just gone past it without any call
C1_Witness ==
    /\ pc[Runner] = "feed"
    /\ idx[Runner] = 2
    /\ feeds_list[Runner][1] = "a"
    /\ calls[Runner] = << >>
    /\ "a" \in commented
    /\ histList = <<"a">>
    /\ KeySeq(processed_list[Runner]) = <<"a">>

\* nothing can be evicted from the handled-items store
NoEviction == feeds_cap >= Cardinality(space \cap OtherItems)

\* C2: with a store large enough that nothing is evicted, comment_feed
\* succeeds at most once per feed and like_feed succeeds at most once per
\* feed, over any number of passes.
C2_AtMostOnce ==
    [][NoEviction =>
         \A p \in Procs : \A f \in OtherItems :
            /\ calls'[p] = Append(calls[p], Call("comment", f, TRUE)) => f \notin commented
            /\ calls'[p] = Append(calls[p], Call("like", f, TRUE)) => f \notin liked]_vars

\* C3: each dedup store holds at most its configured number of keys, in
\* memory after every insertion and on disk after every save.
C3_SizeBounded ==
    /\ \A p \in Procs :
          /\ Len(processed_list[p]) <= feeds_cap
          /\ Len(processed_comments[p]) <= comments_cap
    /\ Len(file_list) <= feeds_cap
    /\ Len(file_comments) <= comments_cap

\* more keys have been created than the store may hold, and the store is full
C3_Witness ==
    /\ pc[Runner] = "save"
    /\ Len(histList) > feeds_cap
    /\ Len(processed_list[Runner]) = feeds_cap

\* the n last elements of a sequence (all of it when it is shorter)
LastN(h, n) ==
    IF Len(h) <= n THEN h ELSE SubSeq(h, Len(h) - n + 1, Len(h))

\* C4: the keys of a dedup store are the most recently created ones, as many
\* as the capacity allows, in the order of their creation: the oldest key is
\* evicted first, an append to an existing record does not move it, and the
\* order survives a save followed by a load.
C4_Fifo ==
    /\ \A p \in Procs :
          /\ pc[p] \notin {"idle", "load_list"}
                => KeySeq(processed_list[p]) = LastN(histList, feeds_cap)
          /\ pc[p] \notin {"idle", "load_list", "load_comments"}
                => KeySeq(processed_comments[p]) = LastN(histComments, comments_cap)
    /\ (\A p \in Procs : pc[p] = "idle")
          => /\ KeySeq(file_list) = LastN(histList, feeds_cap)
             /\ KeySeq(file_comments) = LastN(histComments, comments_cap)

\* the record of "s" was created first, "t" second, and then "c2" was
\* appended to the record of "s", which is still the first
C4_Witness ==
    /\ KeySeq(processed_comments[Runner]) = <<"s", "t">>
    /\ Get(processed_comments[Runner], "s") = <<"c1", "c2">>
    /\ calls[Runner] = << Call("reply", "c3", TRUE), Call("reply", "c2", TRUE) >>

\* the elements of a sequence
Range(q) == {q[i] : i \in DOMAIN q}

\* C5: when two passes overlap on the same store, no update is lost: once
\* both have ended, every feed id that either of them recorded is a key of
\* the persisted handled-items store (nothing being evicted).
C5_NoLostUpdate ==
    (NoEviction /\ started = Procs /\ \A p \in Procs : pc[p] = "idle")
       => Range(histList) \subseteq Keys(file_list)

\* the sub-ids recorded in a replied-comments store
SubIds(store) == UNION {Range(store[i].v) : i \in DOMAIN store}

\* the sub-ids invocation p has replied to with success in the running pass
RepliedInPass(p) ==
    {calls[p][i].id : i \in {j \in DOMAIN calls[p] :
                                calls[p][j].kind = "reply" /\ calls[p][j].ok}}

\* C6: the sub-id of each successful reply is persisted before the next
\* reply is attempted: when the process dies at the point where the next
\* reply is due, the persisted store holds the sub-ids of all the replies
\* the pass has made (nothing being evicted).
C6_ReplyPersistedAtOnce ==
    [][\A p \in Procs :
          (/\ comments_cap >= Cardinality(space \cap SelfItems)
           /\ pc[p] = "reply"
           /\ pc'[p] = "idle")
          => RepliedInPass(p) \subseteq SubIds(file_comments')]_vars

\* C7: a reply_feed call that fails aborts only that reply: the pass goes on
\* with the next comment to reply to (or the next feed) and nothing is
\* recorded for the failed one.
C7_ReplyFailureIsLocal ==
    [][\A p \in Procs :
          (/\ pc[p] = "reply"
           /\ calls'[p] = Append(calls[p],
                 Call("reply", Head(to_reply[p]).comment_tid, FALSE)))
          => /\ pc'[p] \in {"reply", "feed"}
             /\ outcome'[p] = outcome[p]
             /\ processed_comments' = processed_comments]_vars

\* C8: last_browse_time is only set when check_feeds has reported success.
C8_StampOnlyOnSuccess ==
    [][\A p \in Procs :
          (/\ pc[p] = "return"
           /\ pc'[p] = "finally_list"
           /\ outcome[p].status = "false")
          => last_browse_time' = last_browse_time]_vars

(***************************************************************************)
(* Properties of the scheduler.                                            *)
(***************************************************************************)

\* C9: last_post_time is updated exactly when the post handler's publish call
\* reports success, and then to the current time; every other way out of the
\* handler leaves it as it was.
C9_PostStampIffPublished ==
    [][lpc = "post" =>
         /\ (last_post_time' # last_post_time) <=> (post_result' = "published")
         /\ post_result' = "published" => last_post_time' = now]_vars

\* a post has been published in a cycle after the first: the time recorded
\* is the time of that cycle
C9_Witness ==
    /\ post_result = "published"
    /\ lpc = "decide_browse"
    /\ last_post_time = now
    /\ now > Epoch

\* C10: for each action the cooldown check passes exactly when
\* now - lastSuccess >= cooldown: it fails right after a recorded success,
\* passes once the whole duration has gone by (the duration itself
\* included), and passes when no success has been recorded since the start.
C10_CooldownCheck ==
    [][\A action \in {"post", "browse"} :
          lpc = "decide_" \o action =>
             /\ gate'.action = action
             /\ gate'.passed <=> (now - LastSuccess(action) >= Cooldown(action))
             /\ now = LastSuccess(action) => ~gate'.passed
             /\ now - LastSuccess(action) = Cooldown(action) => gate'.passed
             /\ LastSuccess(action) = 0 => gate'.passed]_vars

\* the post gate has just let the check pass with exactly the cooldown gone
\* by since the last published post
C10_Witness ==
    /\ gate.action = "post"
    /\ gate.passed
    /\ lpc \in {"post", "decide_browse"}
    /\ post_result = "none"
    /\ last_post_time > 0
    /\ now - last_post_time = Cooldown("post")

\* the handler an action kind is dispatched to
Handler(action) == IF action = "post" THEN "post" ELSE "renew"

\* C11: while an action kind is still cooling down, its gate returns False
\* at once: the oracle is not called for it, neither at that moment nor later
\* in the cycle, and its handler is not entered.
C11_DenyShortCircuits ==
    /\ [][\A action \in {"post", "browse"} :
            (/\ lpc = "decide_" \o action
             /\ now - LastSuccess(action) < Cooldown(action))
            => /\ gate' = Gate(action, FALSE, FALSE, FALSE, FALSE)
               /\ lpc' \notin {"ask_" \o action, Handler(action), "backoff"}]_vars
    /\ [](\A action \in {"post", "browse"} :
            lpc \in {"ask_" \o action, Handler(action)}
               => now - LastSuccess(action) >= Cooldown(action))

\* a post was published one minute ago, the cooldown is two minutes, and the
\* gate of this cycle has denied "post" without a call of the oracle
C11_Witness ==
    /\ lpc = "decide_browse"
    /\ gate = Gate("post", FALSE, FALSE, FALSE, FALSE)
    /\ last_post_time > 0
    /\ now - last_post_time < Cooldown("post")

\* C12: in a cycle whose activity is SLEEPING no gate is evaluated, the
\* oracle is not called and neither handler is entered, whatever the
\* cooldowns: the cycle goes from the fetch of the activity to its sleep.
C12_SleepingSuppresses ==
    /\ [](activity = "sleeping" =>
            /\ lpc \in {"sleep", "top"}
            /\ gate = NoGate
            /\ post_result = "none"
            /\ pc[Runner] = "idle")
    /\ [][activity' = "sleeping" => UNCHANGED <<feedVars, last_post_time>>]_vars

\* a sleeping cycle that is not the first, at a moment when both cooldowns
\* have gone by
C12_Witness ==
    /\ activity = "sleeping"
    /\ lpc = "sleep"
    /\ now > Epoch
    /\ CooldownPassed(now, last_post_time, Cooldown("post"))
    /\ CooldownPassed(now, last_browse_time, Cooldown("browse"))
    /\ last_browse_time > 0

\* C13: the decision of the gate is True exactly when the call of the oracle
\* returned with success and the text holds the token for yes and not the
\* token for no; both tokens, neither, an empty text, a result without
\* success and an exception all give False, and the gate returns in every
\* case: nothing is raised out of it into the loop.
C13_DecisionParse ==
    [][\A action \in {"post", "browse"} :
          (lpc = "ask_" \o action /\ result # NoResult) =>
             LET r == result
                 yes == \E i \in DOMAIN r.text : r.text[i] = Yes
                 no == \E i \in DOMAIN r.text : r.text[i] = No
             IN /\ gate'.decision <=> (r.kind = "returned" /\ r.ok /\ yes /\ ~no)
                /\ (yes /\ no) => ~gate'.decision
                /\ (~yes /\ ~no) => ~gate'.decision
                /\ r.text = << >> => ~gate'.decision
                /\ ~r.ok => ~gate'.decision
                /\ r.kind = "raised" => ~gate'.decision
                /\ ~gate'.raised
                /\ lpc' \in {"post", "renew", "decide_browse", "diary"}
                /\ (lpc' \in {"post", "renew"}) <=> gate'.decision]_vars

\* the oracle has answered "yes" after a blank, and the post handler is
\* entered
C13_Witness ==
    /\ result = [kind |-> "returned", ok |-> TRUE, text |-> <<Blank, Yes>>]
    /\ gate = Gate("post", TRUE, TRUE, TRUE, FALSE)
    /\ lpc = "post"

\* an exception was raised in the running cycle: by the gate, out of the
\* post handler, or out of the browse handler
RaisedInCycle ==
    \/ gate.raised
    \/ post_result = "exception"
    \/ (gate.action = "browse" /\ gate.decision /\ outcome[Runner].status = "raised")

\* C14 as stated: whatever raised the exception, the sleep that follows it
\* is the back-off sleep, after which another cycle starts.
C14_BackoffAfterAnyException ==
    [][(RaisedInCycle /\ now' # now)
          => (lpc = "backoff" /\ now' = now + BackoffSeconds /\ lpc' = "top")]_vars

\* a cycle is under way and a back-off sleep still fits into the time explored
CycleUnderWay ==
    /\ lpc \notin {"off", "created", "top", "cancelled", "done"}
    /\ now + BackoffSeconds <= Epoch + MaxMinutes * 60

\* C14, amended: no exception raised during a cycle ends the loop, which
\* only ends when it is stopped.  An exception of the gate or of the daily
\* check is caught by the loop, which sleeps the back-off time and starts
\* another cycle; an exception out of a post or browse handler is caught
\* inside the cycle, which goes on to the next statement and ends with its
\* regular sleep.  As long as the loop is not stopped, another cycle
\* eventually begins.
C14_LoopSurvives ==
    /\ [][lpc' \in {"cancelled", "done"} => ~is_running']_vars
    /\ [][(lpc \in {"decide_post", "decide_browse"} /\ gate'.raised)
             => lpc' = "backoff"]_vars
    /\ [][(lpc = "backoff" /\ lpc' # lpc /\ is_running')
             => (lpc' = "top" /\ now' = now + BackoffSeconds)]_vars
    /\ [][(lpc = "post" /\ post_result' = "exception")
             => lpc' = "decide_browse"]_vars
    /\ [][(/\ lpc = "browse"
           /\ pc[Runner] = "idle"
           /\ outcome[Runner].status = "raised"
           /\ is_running')
             => lpc' \in {"sleep", "backoff"}]_vars
    /\ (CycleUnderWay ~> (lpc = "top" \/ ~is_running))

\* the gate has raised in the first cycle, the loop has slept the back-off
\* time and is at the start of another cycle
C14_Witness ==
    /\ lpc = "top"
    /\ is_running
    /\ gate.raised
    /\ now = Epoch + BackoffSeconds

\* C15: a stop request issued while a pass is under way does not preempt
\* it: the pass is left where it is, to go on with its remaining items until
\* it returns by itself, and the loop stops at its next sleep.
C15_StopDoesNotPreempt ==
    [][(is_running /\ ~is_running' /\ lpc = "browse")
          => /\ lpc' = "browse"
             /\ pc'[Runner] = pc[Runner]
             /\ outcome' = outcome]_vars

\* stop() has been called on the running loop
StopRequested == ~is_running /\ lpc # "off"

\* C16: after stop() is called on a running loop the task of the loop ends
\* and stop() returns; once it has ended the loop does nothing more.  No
\* cycle, gate evaluation, post or browse is started from the call of stop()
\* on (so none after its return): what is left to run is the finally clause
\* of a pass that was under way.  A stop during the sleep between two cycles
\* ends the loop there, without the sleep being finished or a cycle run.
C16_StopEndsLoop ==
    /\ (StopRequested ~> (lpc = "done"))
    /\ [][lpc = "done" => UNCHANGED <<loopState, feedVars>>]_vars
    /\ [][StopRequested =>
             /\ lpc' \in {"cancelled", "done"}
             /\ UNCHANGED <<activity, gate, post_result, last_post_time,
                            last_browse_time, commented, liked, replied, now>>
             /\ \A i \in DOMAIN calls'[Runner] : i \in DOMAIN calls[Runner]]_vars
    /\ [][(is_running /\ ~is_running' /\ lpc \in {"sleep", "backoff"})
             => (lpc' = "done" /\ now' = now)]_vars

\* the loop was stopped during the sleep of a sleeping cycle that was not
\* its first, and has ended
C16_Witness ==
    /\ lpc = "done"
    /\ ~is_running
    /\ activity = "sleeping"
    /\ now > Epoch

\* the actions dispatched by the loop that are executing
InFlight ==
    (IF lpc = "post" THEN {"post"} ELSE {})
       \cup (IF lpc \in {"renew", "browse"} THEN {"browse"} ELSE {})
       \cup (IF \E i \in DOMAIN diary : diary[i].state = "running"
             THEN {"diary"} ELSE {})

\* C17: at most one action dispatched by the loop (post, browse, the diary of
\* the daily check) is executing at any moment, and the loop starts no cycle
\* while one dispatched by an earlier cycle is still executing.
C17_OneDispatchInFlight ==
    /\ [](Cardinality(InFlight) <= 1)
    /\ [][(lpc = "top" /\ lpc' # "top") => InFlight = {}]_vars

\* C18: within a cycle the gate of "post" is evaluated before the gate of
\* "browse", and when it admits the post, the post handler has ended
\* (published, failed or raised) before the gate of "browse" is evaluated.
C18_PostBeforeBrowse ==
    /\ [](lpc = "decide_browse" =>
            /\ gate.action = "post"
            /\ gate.decision <=> (post_result # "none"))
    /\ [](lpc \in {"decide_post", "ask_post", "post"} =>
            /\ gate.action # "browse"
            /\ pc[Runner] = "idle")
    /\ [][gate'.action = "browse" => lpc \in {"decide_browse", "ask_browse"}
                                      \/ gate.action = "browse"]_vars

\* the post of this cycle has been published, and now the oracle is asked
\* about "browse"
C18_Witness ==
    /\ lpc = "ask_browse"
    /\ gate.action = "browse"
    /\ post_result = "published"
    /\ last_post_time = now

\* the places of check_feeds inside its feed loop
InFeedLoop == {"feed", "generate", "comment", "like", "save", "reply"}

\* the sub-ids of the comments under a feed
TidsOf(fid) == {comments_list(fid)[j].comment_tid : j \in DOMAIN comments_list(fid)}

\* C19: a pass goes through the fetched list in its order: every remote call
\* is for the feed at the present position, the position only moves on by
\* one, and it leaves a feed of somebody else only once that feed is in the
\* handled-items store and the store is saved; within such a feed the
\* comment call is over before the like call is made.
C19_InFetchOrder ==
    [][\A p \in Procs :
          /\ (calls'[p] # calls[p] /\ calls'[p] # << >>) =>
                LET c == calls'[p][Len(calls'[p])]
                IN /\ idx[p] \in DOMAIN feeds_list[p]
                   /\ c.kind \in {"comment", "like"} => c.id = feeds_list[p][idx[p]]
                   /\ c.kind = "reply" => c.id \in TidsOf(feeds_list[p][idx[p]])
                   /\ c.kind = "comment" => pc[p] = "comment"
                   /\ c.kind = "like" => pc[p] = "like"
          /\ (pc[p] \in InFeedLoop /\ pc'[p] \in InFeedLoop) =>
                idx'[p] \in {idx[p], idx[p] + 1}
          /\ (pc[p] \in {"generate", "comment", "like", "save"}
                 /\ idx'[p] = idx[p] + 1) =>
                /\ pc[p] = "save"
                /\ feeds_list[p][idx[p]] \in Keys(processed_list[p])
                /\ file_list' = processed_list[p]
          /\ (pc[p] \in {"like", "save"} /\ idx'[p] = idx[p]) =>
                pc'[p] \notin {"generate", "comment"}]_vars

\* a pass over [a, b] has made its four calls in that order and is about to
\* save the store for b
C19_Witness ==
    /\ feeds_list[Runner] = <<"a", "b">>
    /\ idx[Runner] = 2
    /\ pc[Runner] = "save"
    /\ calls[Runner] = << Call("comment", "a", TRUE), Call("like", "a", TRUE),
                          Call("comment", "b", TRUE), Call("like", "b", TRUE) >>

\* invocation p makes a comment or like call that fails
OtherCallFails(p) ==
    /\ pc[p] \in {"comment", "like"}
    /\ calls'[p] = Append(calls[p], Call(pc[p], feeds_list[p][idx[p]], FALSE))

\* C20: in the branch for feeds of others the first failing comment or like
\* call ends the pass with a failure outcome, so that no later feed of the
\* list gets a call in that pass, and the caller acts on that outcome: what
\* it does when the pass has returned a failure is not what it does when the
\* pass has returned success.
C20_FailureEndsPassAndIsSurfaced ==
    [][\A p \in Procs :
          /\ OtherCallFails(p) =>
                /\ pc'[p] = "return"
                /\ outcome'[p] = Returned(FALSE, pc[p])
          /\ pc[p] \in {"return", "finally_list", "finally_comments"} =>
                /\ pc'[p] \notin InFeedLoop
                /\ \A i \in DOMAIN calls'[p] : i \in DOMAIN calls[p]
          /\ (/\ pc[p] = "return"
              /\ pc'[p] # pc[p]
              /\ outcome[p].msg \in {"comment", "like"}
              /\ last_browse_time # now) =>
                last_browse_time' #
                   BrowseStamp(Returned(TRUE, "success"), now, last_browse_time)]_vars


\* the feeds of other people that the running pass of p has gone past
DoneBefore(p) ==
    {feeds_list[p][j] : j \in {k \in 1..(idx[p] - 1) :
                                  /\ target_qq(feeds_list[p][k]) # qq_account
                                  /\ ~SkippedByList(config, feeds_list[p][k])}}

\* check_feeds of p has returned a failure from inside its feed loop
FailedAtFeed(p) ==
    /\ pc[p] = "return"
    /\ outcome[p].status = "false"
    /\ idx[p] >= 1

\* a feed of somebody else is done once its like step has not failed: it is
\* then a key of the dict, whatever was sent
RecordedWhenDone ==
    \A p \in Procs :
       (pc[p] = "like" /\ pc'[p] = "save") => CurFeed(p) \in Keys(processed_list'[p])

\* the dict is written to processed_list.json before the loop goes on
SavedBeforeNext ==
    \A p \in Procs :
       pc[p] = "save" =>
          /\ file_list' = json_dump(processed_list[p])
          /\ CurFeed(p) \in Keys(file_list')
          /\ pc'[p] = "feed"
          /\ idx'[p] = idx[p] + 1

\* C21 as stated: a feed of somebody else that is done is recorded whether
\* or not anything was sent, the dict is saved before the next feed, and
\* when a later feed of the pass fails every feed done before it is in
\* processed_list.json.
C21_DoneArePersisted ==
    /\ [][RecordedWhenDone /\ SavedBeforeNext]_vars
    /\ [](\A p \in Procs : FailedAtFeed(p) => DoneBefore(p) \subseteq Keys(file_list))

\* C21, amended: a feed of somebody else that is done is recorded whether or
\* not anything was sent, and the dict is saved before the next feed; when
\* a later feed of the pass fails, processed_list.json holds the dict as it
\* was after the last feed done, which has every feed done before unless
\* the cache size has evicted it: all of them when the cache size is not
\* below their number.
C21_DoneArePersistedUpToCache ==
    /\ [][RecordedWhenDone /\ SavedBeforeNext]_vars
    /\ [](\A p \in Procs :
            FailedAtFeed(p) =>
               /\ file_list = json_dump(processed_list[p])
               /\ feeds_cap >= Cardinality(DoneBefore(p))
                     => DoneBefore(p) \subseteq Keys(file_list))

\* "a" was done without a comment and without a like, then the comment on
\* "b" failed: "a" is in the file
C21_Witness ==
    /\ FailedAtFeed(Runner)
    /\ idx[Runner] = 2
    /\ feeds_list[Runner][1] = "a"
    /\ calls[Runner] = << Call("comment", "b", FALSE) >>
    /\ KeySeq(file_list) = << "a" >>


\* the check of this step has created a task
Dispatched == Len(diary') > Len(diary)

\* C22: no two tasks for the periodic summary are made on the same date,
\* however many cycles run their daily check inside the minute of the
\* schedule; the date is recorded in the step that makes the task, and the
\* end of the task, failed or not, leaves the recorded date as it is.
C22_OncePerDate ==
    /\ [](\A i, j \in DOMAIN diary : diary[i].date = diary[j].date => i = j)
    /\ [][Dispatched =>
            /\ last_diary_date # Date(now)
            /\ last_diary_date' = Date(now)
            /\ diary' = Append(diary, DiaryTask(now))]_vars
    /\ [][(\E i \in DOMAIN diary : diary[i].state = "running" /\ diary'[i].state # "running")
             => last_diary_date' = last_diary_date]_vars
    /\ [](\A i \in DOMAIN diary : last_diary_date >= diary[i].date)

\* the loop does not wait between its cycles: the task made by the first
\* cycle has failed, and a later cycle in the same minute (its browse gate
\* is held back by the pass of the first one) has run its daily check
\* without making another
C22_Witness ==
    /\ config.check_interval_minutes = 0
    /\ FormatHM(now) = config.diary_schedule_time
    /\ lpc = "sleep"
    /\ last_browse_time = now
    /\ gate = Gate("browse", FALSE, FALSE, FALSE, FALSE)
    /\ diary = << [date |-> Date(now), state |-> "failed"] >>


\* C23: a cycle that has got an activity comes to its sleep through the
\* daily check only, which runs after the gate of "browse" has been
\* evaluated: so also a cycle whose activity is SLEEPING.
C23_DailyCheckInEveryCycle ==
    [][(lpc # "sleep" /\ lpc' = "sleep" /\ activity' # "none")
          => /\ lpc \in {"browse", "diary"}
             /\ gate'.action = "browse"]_vars


\* check_feeds of p has looked at the silent periods
Checked(p) == pc[p] \notin {"idle", "load_list", "load_comments", "check"}

\* the minute of the day t is in the range r = (start, end) of minutes
Within(t, r) ==
    IF r[2] >= r[1] THEN r[1] <= t /\ t <= r[2]
                    ELSE t >= r[1] \/ t <= r[2]

\* C24: a silent_hours text of one or two well-formed ranges matches the
\* time of the pass exactly when at least one of its ranges does: a range
\* whose end is not before its start holds the times from start to end,
\* both included, and one whose end is before its start holds the times
\* from start on and those up to end.  23:00-07:00 matches 23:30, 00:00 and
\* 06:59, and does not match 12:00.
C24_WindowMembership ==
    \A p \in Procs :
       Checked(p) =>
          /\ config.silent_hours \in {RangeText(r) : r \in Ranges} =>
                \A r \in Ranges :
                   config.silent_hours = RangeText(r)
                      => (is_silent[p] <=> Within(CurrentTime(now), r))
          /\ Len(config.silent_hours) = 2 * Len(RangeText(<< 0, 0 >>)) + 1 =>
                \A r \in Ranges : \A q \in MainRanges :
                   config.silent_hours = Joined(RangeText(r), RangeText(q))
                      => (is_silent[p] <=> \/ Within(CurrentTime(now), r)
                                           \/ Within(CurrentTime(now), q))
          /\ config.silent_hours = << "23", Colon, "00", Dash, "07", Colon, "00" >>
                => /\ now \in {At(23, 30), At(0, 0), At(6, 59)} => is_silent[p]
                   /\ now = At(12, 0) => ~is_silent[p]

\* at 06:59 a pass finds itself inside 23:00-07:00
C24_Witness ==
    /\ Checked(Runner)
    /\ config.silent_hours = RangeText(<< 23 * 60, 7 * 60 >>)
    /\ now = At(6, 59)
    /\ is_silent[Runner]

\* the two times of a period that has a '-', as the code parses them
ParsedTimes(prd) ==
    { parse_time_to_minutes(Strip(SplitFirst(Strip(prd), Dash)[1])),
      parse_time_to_minutes(Strip(SplitFirst(Strip(prd), Dash)[2])) }

\* C25: a period that is no range (no '-', no ':', not a number, hour not
\* in 0..23, minute not in 0..59) is left out, and the other period of the
\* text counts as if it stood alone; a time that is accepted is a minute in
\* 0..1439; a text that is empty or has only such periods matches no time,
\* and the pass may then like and comment.
C25_MalformedIgnored ==
    /\ \A p \in Procs :
          Checked(p) =>
             /\ \A m \in Malformed : \A r \in MainRanges :
                   config.silent_hours \in {Joined(m, RangeText(r)), Joined(RangeText(r), m)}
                      => (is_silent[p] <=> Within(CurrentTime(now), r))
             /\ config.silent_hours \in
                      {<< >>} \cup Malformed \cup {Joined(m, n) : m \in Malformed, n \in Malformed}
                   => ~is_silent[p] /\ allow_like[p] /\ allow_comment[p]
    /\ \A p \in Procs :
          Checked(p) =>
             \A i \in DOMAIN Split(config.silent_hours, Comma) :
                LET prd == Split(config.silent_hours, Comma)[i]
                IN Contains(prd, Dash) =>
                      /\ \A t \in ParsedTimes(prd) : t = NoMinutes \/ (0 <= t /\ t < 1440)
                      /\ prd \in Malformed => NoMinutes \in ParsedTimes(prd)

\* "07:00-24:00,23:00-07:00" at 23:30: the first period is left out, the
\* second one matches
C25_Witness ==
    /\ Checked(Runner)
    /\ config.silent_hours =
          Joined(<< "07", Colon, "00", Dash, "24", Colon, "00" >>,
                 RangeText(<< 23 * 60, 7 * 60 >>))
    /\ now = At(23, 30)
    /\ is_silent[Runner]

\* C26: outside the silent periods a pass may like and comment whatever the
\* two flags say; inside, its two permissions are the two flags.
C26_SilentPermissions ==
    \A p \in Procs :
       Checked(p) =>
          IF is_silent[p]
          THEN /\ allow_like[p] = config.like_during_silent
               /\ allow_comment[p] = config.comment_during_silent
          ELSE allow_like[p] /\ allow_comment[p]

\* a silent pass that may like and may not comment
C26_Witness ==
    /\ Checked(Runner)
    /\ is_silent[Runner]
    /\ config.like_during_silent
    /\ ~config.comment_during_silent
    /\ allow_like[Runner]
    /\ ~allow_comment[Runner]


\* this step of p makes a call of the kind for feed f
Calls(p, kind, f) ==
    \E ok \in BOOLEAN : calls'[p] = Append(calls[p], Call(kind, f, ok))

\* C27: comment_feed is called for a feed exactly when the pass has the
\* comment permission and the draw made for the comment is not above
\* comment_possibility; like_feed exactly when the pass has the like
\* permission and the draw made for the like is not above
\* like_possibility.  Each gate looks at its own permission, draw and
\* probability only: the step of one leaves the draw of the other alone.
C27_IndependentGates ==
    [][\A p \in Procs :
          /\ pc[p] = "comment" =>
                /\ Calls(p, "comment", CurFeed(p)) <=>
                      /\ allow_comment[p]
                      /\ comment_draw'[p] # NoDraw
                      /\ comment_draw'[p] <= config.comment_possibility
                /\ ~Calls(p, "like", CurFeed(p))
                /\ like_draw'[p] = like_draw[p]
          /\ pc[p] = "like" =>
                /\ Calls(p, "like", CurFeed(p)) <=>
                      /\ allow_like[p]
                      /\ like_draw'[p] # NoDraw
                      /\ like_draw'[p] <= config.like_possibility
                /\ ~Calls(p, "comment", CurFeed(p))
                /\ comment_draw'[p] = comment_draw[p]
          /\ pc[p] \notin {"comment", "like"} =>
                \A f \in Items : ~Calls(p, "comment", f) /\ ~Calls(p, "like", f)]_vars

\* a silent pass that may like and may not comment: the feed was liked, with
\* a draw of 0.75 against a probability of 1.0, and no comment was sent
\* although comment_possibility is 1.0
C27_Witness ==
    /\ pc[Runner] = "save"
    /\ is_silent[Runner]
    /\ ~allow_comment[Runner]
    /\ config.comment_possibility = Whole
    /\ comment_draw[Runner] = NoDraw
    /\ like_draw[Runner] = Whole - 1
    /\ calls[Runner] = << Call("like", "a", TRUE) >>


\* the owner of feed f is named in monitor.read_list
OwnerListed(f) == \E q \in config.read_list : q.text = target_qq(f)

\* the policy leaves feed f out
Excluded(f) ==
    \/ config.read_list_type = "whitelist" /\ ~OwnerListed(f)
    \/ config.read_list_type = "blacklist" /\ OwnerListed(f)

\* the comments of the feeds in F
CommentsOf(F) == UNION {TidsOf(f) : f \in F}

\* C28: under a whitelist only the feeds whose owner is in read_list are
\* processed, under a blacklist only those whose owner is not.  The loop
\* goes past a feed that the policy leaves out without a remote call and
\* without a change of either dict or file, and the id of such a feed is
\* never a key of a dict or of a file, nor has anything been sent for it.
C28_ListPolicy ==
    /\ [](\A p \in Procs :
            pc[p] \in {"generate", "comment", "like", "save", "reply"}
               => ~Excluded(CurFeed(p)))
    /\ [][\A p \in Procs :
            (/\ pc[p] = "feed"
             /\ idx[p] <= Len(feeds_list[p])
             /\ Excluded(CurFeed(p)))
               => /\ pc'[p] = "feed"
                  /\ idx'[p] = idx[p] + 1
                  /\ UNCHANGED <<memVars, fileVars, remoteVars>>]_vars
    /\ [](\A f \in Items :
            Excluded(f) =>
               /\ f \notin Keys(file_list) \cup Keys(file_comments)
               /\ \A p \in Procs :
                     f \notin Keys(processed_list[p]) \cup Keys(processed_comments[p])
               /\ f \notin commented \cup liked
               /\ CommentsOf({f}) \cap replied = {})

\* a whitelist that names the owner of "a" only: the pass has done "a" and
\* has gone past "b"
C28_Witness ==
    /\ config.read_list_type = "whitelist"
    /\ config.read_list = {ListEntry(TRUE, "q1")}
    /\ pc[Runner] = "feed"
    /\ feeds_list[Runner] = << "a", "b" >>
    /\ idx[Runner] = 3
    /\ "a" \in commented \cap liked
    /\ KeySeq(file_list) = << "a" >>


\* the loop of p is at a feed of the bot that the policy does not leave out
AtOwnFeed(p) ==
    /\ pc[p] = "feed"
    /\ idx[p] <= Len(feeds_list[p])
    /\ target_qq(CurFeed(p)) = qq_account
    /\ ~Excluded(CurFeed(p))

\* the comments under feed f that somebody else wrote and whose sub-id is
\* not in the record of f, in the order of the feed
Candidates(f, store) ==
    SelectSeq(comments_list(f),
              LAMBDA c : /\ c.qq_account # qq_account
                         /\ c.comment_tid \notin Range(Get(store, f)))

\* the loop goes on to the next feed; nothing is sent, recorded or ended
PassedOver(p) ==
    /\ pc'[p] = "feed"
    /\ idx'[p] = idx[p] + 1
    /\ outcome'[p] = outcome[p]
    /\ UNCHANGED <<memVars, fileVars, remoteVars>>

\* C29: without auto-reply a feed of the bot is passed over: no reply, no
\* change of a dict or file.  With auto-reply the pass sets out to reply to
\* exactly the comments under the feed that somebody else wrote and whose
\* sub-id is not in the record of the feed, in their order: every reply
\* call is for the first of those that are left, and when the loop leaves
\* the feed without a failure none is left.  A feed without such comments,
\* or without any comment, is passed over without a reply and without an
\* error.
C29_SelfBranch ==
    /\ [][\A p \in Procs :
            AtOwnFeed(p) =>
               LET todo == Candidates(CurFeed(p), processed_comments[p])
               IN IF ~config.enable_auto_reply \/ todo = << >>
                  THEN PassedOver(p)
                  ELSE /\ pc'[p] = "reply"
                       /\ to_reply'[p] = todo
                       /\ UNCHANGED <<idx, outcome, memVars, fileVars, remoteVars>>]_vars
    /\ [][\A p \in Procs : \A tid \in CommentIds :
            Calls(p, "reply", tid) =>
               /\ config.enable_auto_reply
               /\ pc[p] = "reply"
               /\ tid = Head(to_reply[p]).comment_tid
               /\ tid \in TidsOf(CurFeed(p))]_vars
    /\ [][\A p \in Procs :
            pc[p] = "reply" =>
               \/ /\ calls'[p] = Append(calls[p],
                                        Call("reply", Head(to_reply[p]).comment_tid, TRUE))
                  /\ to_reply'[p] = Tail(to_reply[p])
                  /\ to_reply'[p] = Candidates(CurFeed(p), processed_comments'[p])
                  /\ pc'[p] = IF to_reply'[p] = << >> THEN "feed" ELSE "reply"
               \/ pc'[p] = "return" /\ outcome'[p].status = "false"]_vars
    /\ [](~config.enable_auto_reply =>
            /\ replied = {}
            /\ file_comments = << >>
            /\ \A p \in Procs : processed_comments[p] = << >>)

\* auto-reply is on: under "s" the comments of q1 and q2 were replied to in
\* their order, the comment of the bot was not; then "u", which has no
\* comment, was passed over
C29_Witness ==
    /\ config.enable_auto_reply
    /\ pc[Runner] = "feed"
    /\ feeds_list[Runner] = << "s", "u" >>
    /\ idx[Runner] = 3
    /\ outcome[Runner] = NoOutcome
    /\ calls[Runner] = << Call("reply", "c1", TRUE), Call("reply", "c2", TRUE) >>
    /\ Get(processed_comments[Runner], "s") = << "c1", "c2" >>


\* no element occurs twice in q
NoDuplicate(q) == \A i, j \in DOMAIN q : q[i] = q[j] => i = j

\* b is a with zero or more elements added at its end
GrownFrom(a, b) == Len(a) <= Len(b) /\ SubSeq(b, 1, Len(a)) = a

\* from store old to store new every record that is kept has only grown at
\* its end, and a record that is new holds one sub-id
OnlyAppended(old, new) ==
    \A f \in Keys(new) :
        IF f \in Keys(old)
        THEN GrownFrom(Get(old, f), Get(new, f))
        ELSE Len(Get(new, f)) = 1

\* C30: no record of the replied-comments store, in memory or on disk,
\* holds a sub-id twice.  While a pass works on its dict, a record that
\* stays in it is only ever extended at its end, and a record that leaves
\* leaves whole; the file changes only by taking over the dict of a pass
\* that ends, so it never holds a record that no dict held.
C30_AppendOnlyRecords ==
    /\ [](/\ \A i \in DOMAIN file_comments : NoDuplicate(file_comments[i].v)
          /\ \A p \in Procs : \A i \in DOMAIN processed_comments[p] :
                NoDuplicate(processed_comments[p][i].v))
    /\ [][\A p \in Procs :
            \/ processed_comments'[p] = processed_comments[p]
            \/ pc[p] = "load_comments" /\ processed_comments'[p] = file_comments
            \/ pc[p] = "reply" /\ OnlyAppended(processed_comments[p],
                                               processed_comments'[p])
            \/ pc'[p] = "idle" /\ processed_comments'[p] = << >>]_vars
    /\ [][\/ file_comments' = file_comments
          \/ \E p \in Procs : /\ pc[p] = "finally_comments"
                               /\ file_comments' = processed_comments[p]]_vars

\* with room for one record: the record of "t" has left whole, the record
\* of "s" has grown to two sub-ids in the order of the replies
C30_Witness ==
    /\ config.processed_comments_cache_size = 1
    /\ pc[Runner] = "feed"
    /\ feeds_list[Runner] = << "t", "s" >>
    /\ calls[Runner] = << Call("reply", "c3", TRUE), Call("reply", "c1", TRUE),
                          Call("reply", "c2", TRUE) >>
    /\ processed_comments[Runner] = << [k |-> "s", v |-> << "c1", "c2" >>] >>


\* the step is one of the running process, which does not die in it
Lives == lpc' # "off"

\* after the step processed_list.json is not the document of the dict of
\* the pass
ListNotWritten ==
    ~(disk'.list = "whole" /\ file_list' = processed_list[Runner])

\* after the step processed_comments.json is not the document of the dict
\* of the pass
CommentsNotWritten ==
    ~(disk'.comments = "whole" /\ file_comments' = processed_comments[Runner])

\* C31: a save of either dict that does not write the file logs an error
\* and is otherwise like one that does: the pass goes on from the save to
\* where it would have gone, with its dicts and its outcome as they were,
\* the handler ends, and the loop goes on to the daily check and its sleep
\* as after any browse.
C31_WriteFailureContained ==
    /\ [][(pc[Runner] = "save" /\ Lives) =>
            /\ pc'[Runner] = "feed"
            /\ idx'[Runner] = idx[Runner] + 1
            /\ UNCHANGED <<memVars, outcome, lpc>>
            /\ ListNotWritten => "save_list" \in logged']_vars
    /\ [][(pc[Runner] = "finally_list" /\ Lives) =>
            /\ pc'[Runner] = "finally_comments"
            /\ UNCHANGED <<memVars, outcome, lpc>>
            /\ ListNotWritten => "save_list" \in logged']_vars
    /\ [][(pc[Runner] = "finally_comments" /\ Lives) =>
            /\ pc'[Runner] = "idle"
            /\ outcome'[Runner].status = outcome[Runner].status
            /\ UNCHANGED lpc
            /\ CommentsNotWritten => "save_comments" \in logged']_vars
    /\ [][(lpc = "browse" /\ pc[Runner] = "idle") =>
            \/ lpc' = "sleep"
            \/ lpc' = "backoff" /\ UNCHANGED <<fileVars, diary, last_diary_date>>]_vars
    /\ [](lpc = "backoff" => gate.raised \/ pc[Runner] = "idle")

\* the save after the feed and the two saves at the end of the pass have
\* all failed; the pass returned its success, the loop has slept and is at
\* the top of its next cycle
C31_Witness ==
    /\ {"save_list", "save_comments"} \subseteq logged
    /\ disk = NoFiles
    /\ "a" \in liked
    /\ outcome[Runner].status = "true"
    /\ last_browse_time = Epoch
    /\ lpc = "top"
    /\ now = Epoch + config.check_interval_minutes * 60


\* the pass of p holds its two dicts and is not inside a statement that
\* changes one of them
BetweenMutations(p) ==
    pc[p] \in {"check", "feed", "generate", "comment", "like", "reply", "return"}

\* C32: each file is at every instant a whole document, also when the
\* process has died inside a save, and whenever a pass is between two
\* mutations of its dicts each file is the document of its dict as the
\* last mutation left it.
C32_AtomicAndCurrent ==
    /\ [](disk.list # "partial" /\ disk.comments # "partial")
    /\ [](\A p \in Procs :
            (/\ BetweenMutations(p)
             /\ \E tid \in CommentIds : Call("reply", tid, TRUE) \in Range(calls[p])) =>
                /\ disk.comments = "whole"
                /\ file_comments = json_dump(processed_comments[p]))


\* C33: whenever a load or save has ended, however it ended, its lock is
\* free again: no lock is held at a point where another load or save could
\* start, so none waits for a lock that is never released.
C33_LocksReleased ==
    /\ [](locks = {})
    /\ [](\A p \in Procs :
            /\ pc[p] \in {"load_list", "save", "finally_list"} => "list" \notin locks
            /\ pc[p] \in {"load_comments", "finally_comments"} => "comments" \notin locks)

\* a read and a write of processed_list.json have failed before; the save
\* that has just been made got the lock and wrote the file
C33_Witness ==
    /\ {"load_list", "save_list"} \subseteq logged
    /\ pc[Runner] = "finally_comments"
    /\ disk.list = "whole"
    /\ file_list = processed_list[Runner]
    /\ Keys(file_list) = {"a"}
    /\ locks = {}


\* what a load may give for a file of the given kind and text: the dict of
\* the document if there is a whole one, and the empty dict, with an error
\* logged under op if a file is there
Loaded(kind, doc, store, op) ==
    \/ kind = "missing" /\ store = << >>
    \/ kind = "whole" /\ store = doc
    \/ kind # "missing" /\ store = << >> /\ op \in logged'

\* C40: a load always returns to the handler: a missing file gives the
\* empty dict, a file that cannot be read or parsed gives the empty dict
\* and an error in the log, and the file is left as it is.  The pass then
\* decides by the dict it got: a feed that is not in it is handled again,
\* whatever the file says, and the next save that succeeds makes the file
\* the document of the dict of the pass.
C40_LoadNeverRaises ==
    /\ [][pc[Runner] = "load_list" =>
            /\ pc'[Runner] = "load_comments"
            /\ Loaded(disk.list, file_list, processed_list'[Runner], "load_list")
            /\ disk.list = "partial" => processed_list'[Runner] = << >>
            /\ UNCHANGED <<file_list, file_comments, disk, outcome, lpc>>]_vars
    /\ [][pc[Runner] = "load_comments" =>
            /\ pc'[Runner] = "check"
            /\ Loaded(disk.comments, file_comments, processed_comments'[Runner],
                      "load_comments")
            /\ disk.comments = "partial" => processed_comments'[Runner] = << >>
            /\ UNCHANGED <<file_list, file_comments, disk, outcome, lpc>>]_vars
    /\ [][(/\ pc[Runner] = "feed"
           /\ idx[Runner] <= Len(feeds_list[Runner])
           /\ target_qq(CurFeed(Runner)) # qq_account
           /\ CurFeed(Runner) \notin Keys(processed_list[Runner])) =>
               pc'[Runner] = "generate"]_vars
    /\ [][(pc[Runner] \in {"save", "finally_list"} /\ disk'.list = "whole"
             /\ "save_list" \notin logged') =>
               file_list' = processed_list[Runner]]_vars
    /\ [][(pc[Runner] = "finally_comments" /\ disk'.comments = "whole"
             /\ "save_comments" \notin logged') =>
               file_comments' = processed_comments[Runner]]_vars

\* processed_comments.json could not be loaded in a pass over "s", whose
\* comments c1 and c2 had both been replied to; the pass replied to c1 once
\* more, and its save left c1 alone in the file
C40_Witness ==
    /\ "load_comments" \in logged
    /\ "save_comments" \notin logged
    /\ replied = {"c1", "c2"}
    /\ disk.comments = "whole"
    /\ file_comments = << [k |-> "s", v |-> << "c1" >>] >>
    /\ pc[Runner] = "idle"


\* the handler of p is inside its try block: both dicts are loaded and
\* check_feeds has been called and not yet left behind
InTry(p) ==
    pc[p] \in {"check", "feed", "generate", "comment", "like", "save", "reply",
               "return"}

\* the handler of p ends in this step
HandlerEnds(p) == pc[p] = "finally_comments" /\ pc'[p] = "idle"

\* the feeds of other people that the pass of p has behind it: each was
\* recorded in this pass, or was in the dict already
HandledInPass(p) ==
    {feeds_list[p][i] : i \in 1..(idx[p] - 1)} \cap OtherItems

\* C39 as stated: when the handler ends, every sub-id replied to and every
\* feed handled in the pass is in its file.
C39_AllRecordedPersisted ==
    [][HandlerEnds(Runner) =>
          /\ RepliedInPass(Runner) \subseteq SubIds(file_comments')
          /\ HandledInPass(Runner) \subseteq Keys(file_list')]_vars

\* C39, amended: the try block is left only into the finally clause,
\* whether check_feeds returned, raised or was cancelled; the finally
\* clause writes both dicts as they are at that moment, so when the handler
\* ends each file is the document of its dict.  Where the cache size
\* leaves room for a record of every feed, so that no record is evicted,
\* the file holds every sub-id replied to and every feed handled in the
\* pass.
C39_SavedOnEveryExit ==
    /\ [][(InTry(Runner) /\ ~InTry(Runner)') =>
            /\ pc'[Runner] = "finally_list"
            /\ UNCHANGED <<memVars, fileVars>>]_vars
    /\ [][pc[Runner] = "finally_list" =>
            /\ pc'[Runner] = "finally_comments"
            /\ file_list' = processed_list[Runner]
            /\ UNCHANGED <<memVars, file_comments>>]_vars
    /\ [][pc[Runner] = "finally_comments" =>
            /\ HandlerEnds(Runner)
            /\ file_comments' = processed_comments[Runner]
            /\ file_list' = file_list
            /\ file_list = processed_list[Runner]
            /\ Cardinality(space \cap SelfItems) <= config.processed_comments_cache_size
                  => RepliedInPass(Runner) \subseteq SubIds(file_comments')
            /\ Cardinality(space \cap OtherItems) <= config.processed_feeds_cache_size
                  => HandledInPass(Runner) \subseteq Keys(file_list')]_vars

\* stop() has cancelled the task while the pass waited for the reply to
\* c2 under "s"; the reply to c1 is in the file
C39_Witness ==
    /\ outcome[Runner].status = "cancelled"
    /\ pc[Runner] = "idle"
    /\ ~is_running
    /\ replied = {"c1"}
    /\ file_comments = << [k |-> "s", v |-> << "c1" >>] >>
    /\ disk.comments = "whole"


\* it is night, which is silent, and neither flag allows anything
QuietNight ==
    /\ now = At(23, 30)
    /\ config.silent_hours = Night
    /\ ~config.like_during_silent
    /\ ~config.comment_during_silent

\* C38: a pass that starts in a silent period with neither permission ends
\* in check_feeds at once with (True, ...): nothing is fetched, no call is
\* made, the two dicts stay as they were loaded, and the saves at the end
\* of the handler leave in each file what was in it.
C38_SilentPassIsIdle ==
    /\ [][(pc[Runner] = "check" /\ QuietNight) =>
            /\ pc'[Runner] = "return"
            /\ outcome'[Runner].status = "true"
            /\ UNCHANGED <<memVars, fileVars, remoteVars, feeds_list, idx>>]_vars
    /\ [](QuietNight =>
            /\ calls[Runner] = << >>
            /\ feeds_list[Runner] = << >>
            /\ pc[Runner] \notin {"feed", "generate", "comment", "like", "save", "reply"}
            /\ outcome[Runner].status \in {"none", "norun", "true"})
    /\ [][QuietNight =>
            /\ file_list' = file_list
            /\ file_comments' = file_comments
            /\ UNCHANGED <<commented, liked, replied>>
            /\ \/ UNCHANGED memVars
               \/ pc[Runner] = "load_list"
                     /\ processed_list'[Runner] = file_list
                     /\ UNCHANGED processed_comments
               \/ pc[Runner] = "load_comments"
                     /\ processed_comments'[Runner] = file_comments
                     /\ UNCHANGED processed_list
               \/ pc'[Runner] = "idle"]_vars

\* at 23:30, with "a" and c1 in the files from before, the pass has been
\* given up with (True, ...) and the handler has ended: no call was made,
\* the files hold what they held
C38_Witness ==
    /\ QuietNight
    /\ pc[Runner] = "idle"
    /\ outcome[Runner].status = "true"
    /\ last_browse_time = now
    /\ file_list = << [k |-> "a", v |-> << >>] >>
    /\ file_comments = << [k |-> "s", v |-> << "c1" >>] >>
    /\ replied = {"c1"}


\* the loop asks the provider for the current activity in this step
Fetches ==
    /\ lpc \in {"created", "top"}
    /\ lpc' \in {"sleep", "decide_post"}

\* C34: a cycle begins with the sleep of the check interval: the loop,
\* started at Epoch, asks for the activity only when a whole interval has
\* gone by, and it comes to the top of a cycle only out of one sleep.
C34_SleepBeginsCycle ==
    /\ [][Fetches => now >= Epoch + config.check_interval_minutes * 60]_vars
    /\ [][(lpc' = "top" /\ lpc # "top") =>
            /\ lpc \in {"sleep", "backoff"}
            /\ now' > now]_vars


\* the post handler of the running cycle has raised
PostRaised == post_result = "exception"

\* C35: when the post handler raises, the loop goes on to the gate of
\* browse in the same step of time, not to its back-off; the cycle comes to
\* its sleep only after the gate of browse has been evaluated and the
\* daily check has run, which at the minute of the diary records the date.
C35_PostFailureContained ==
    /\ [][(lpc = "post" /\ lpc' # lpc) =>
            /\ lpc' = "decide_browse"
            /\ now' = now
            /\ UNCHANGED <<is_running, gate, feedVars>>]_vars
    /\ [][(PostRaised /\ lpc = "decide_browse" /\ lpc' # lpc) =>
            /\ gate'.action = "browse"
            /\ lpc' = "backoff" => gate'.raised]_vars
    /\ [](PostRaised =>
            /\ lpc \notin {"off", "created", "decide_post", "ask_post", "post"}
            /\ lpc \in {"sleep", "diary", "renew", "browse", "ask_browse"}
                  => gate.action = "browse"
            /\ (lpc = "sleep" /\ config.diary_enabled
                  /\ FormatHM(now) = config.diary_schedule_time)
                  => last_diary_date = Date(now))

\* the post handler raised, browse was asked about and declined, the daily
\* check started the diary, and the cycle is at its regular sleep
C35_Witness ==
    /\ PostRaised
    /\ lpc = "sleep"
    /\ gate = Gate("browse", TRUE, TRUE, FALSE, FALSE)
    /\ Len(diary) = 1
    /\ last_diary_date = Date(now)


\* seconds since t
Since(t) == now - t

\* C36: last_post_time changes only when a post has been published, and
\* then becomes the present time while last_browse_time stays; vice versa
\* last_browse_time changes only when check_feeds has come back to the
\* browse handler, while last_post_time stays.  The gate of post compares
\* the time since last_post_time with the post cooldown, and the gate of
\* browse the time since last_browse_time with the browse cooldown.
C36_IndependentCooldowns ==
    /\ [][last_post_time' # last_post_time =>
            /\ lpc = "post"
            /\ post_result' = "published"
            /\ last_post_time' = now
            /\ last_browse_time' = last_browse_time]_vars
    /\ [][last_browse_time' # last_browse_time =>
            /\ lpc = "browse"
            /\ pc[Runner] = "return"
            /\ last_browse_time' = now
            /\ last_post_time' = last_post_time]_vars
    /\ [][(lpc = "decide_post" /\ lpc' # lpc) =>
            /\ gate'.action = "post"
            /\ gate'.passed = (Since(last_post_time) >= config.post_cooldown_minutes * 60)
            /\ UNCHANGED <<last_post_time, last_browse_time>>]_vars
    /\ [][(lpc = "decide_browse" /\ lpc' # lpc) =>
            /\ gate'.action = "browse"
            /\ gate'.passed = (Since(last_browse_time) >= config.browse_cooldown_minutes * 60)
            /\ UNCHANGED <<last_post_time, last_browse_time>>]_vars

\* a post was published in the first cycle; in the second, one minute
\* later, post is still in its cooldown, and browse, asked about for the
\* second time, has run
C36_Witness ==
    /\ last_post_time = Epoch
    /\ last_browse_time = Epoch + 60
    /\ now = Epoch + 60
    /\ gate = Gate("browse", TRUE, TRUE, TRUE, FALSE)
    /\ lpc = "sleep"


\* the loop tasks that can still begin a cycle: the task of self.task when
\* it has neither been cancelled nor ended, and the tasks that self.task
\* left behind while they were running
LoopTasksAlive == (IF Live(lpc) THEN 1 ELSE 0) + tasks.orphans

\* everything but the count of the calls is as it was
NothingChanged ==
    /\ UNCHANGED <<config, space, now, started, loopState, feedVars>>
    /\ tasks'.orphans = tasks.orphans

\* C37: whatever the order of the calls of start() and stop(), at most one
\* loop task can still begin a cycle, and it exists exactly while
\* is_running is set; the task that start() found cancelled only runs the
\* finally clause of its pass.  A call of start() while the loop is running
\* and a call of stop() while it is not change nothing.
C37_OneLoopTask ==
    /\ [](LoopTasksAlive <= 1)
    /\ [](is_running <=> LoopTasksAlive = 1)
    /\ [](pc[Manual] \in {"idle", "finally_list", "finally_comments"})
    /\ [][(tasks'.calls # tasks.calls /\ tasks'.last = "start" /\ is_running)
            => NothingChanged]_vars
    /\ [][(tasks'.calls # tasks.calls /\ tasks'.last = "stop" /\ ~is_running)
            => NothingChanged]_vars

\* after four calls, the last of them a start() made while the cancelled
\* task had not ended: that task is between its two saves, and the new
\* task is inside a pass of its own
C37_Witness ==
    /\ tasks.calls = 4
    /\ tasks.last = "start"
    /\ pc[Manual] = "finally_comments"
    /\ lpc = "browse"
    /\ pc[Runner] \in AwaitPoints
    /\ is_running

====
